---------------------------- MODULE Spec2Model ----------------------------
(***************************************************************************)
(* Execution-graph engine of the agent loop: the plan graph held by the   *)
(* Execution Context, the scheduler loop AgentLoop4._execute_dag and the  *)
(* step runner AgentLoop4._execute_step (src/agentLoop/flow.py).          *)
(*                                                                         *)
(* One batch of step invocations runs as asyncio tasks on one event loop:  *)
(* the code between two awaits is atomic, so every action below is the     *)
(* code between two suspension points.  The capability (AgentRunner) is   *)
(* an opaque collaborator: each invocation nondeterministically returns a  *)
(* success result, a structured failure, or raises.                        *)
(***************************************************************************)
EXTENDS Naturals, Sequences, FiniteSets, TLC

-----------------------------------------------------------------------------
(* Bounds of the model                                                      *)

\* Plans drawn in Init have at most this many dependency edges.
MaxEdges == 2

\* The operator of the debugger issues at most this many commands.
MaxCommands == 3

-----------------------------------------------------------------------------
(* The universe of plan graphs                                              *)

ROOT == "ROOT"

\* The step ids of a plan of three steps, in node order.
PlanOrder == <<"T1", "T2", "T3">>

VARIABLE nodes              \* plan_graph.nodes other than ROOT, in node order

\* Node order of the plan graph (the order nodes are iterated in).
StepOrder == nodes

Steps == {StepOrder[i] : i \in 1..Len(StepOrder)}

\* (mutant) a budget one short of the longest possible dependency chain.
max_iterations_Short == Len(StepOrder) - 1

\* flow.py:105  max_iterations = 20
max_iterations == 20

Nodes == Steps \cup {ROOT}

Keys == {"x", "y"}

Range(seq) == {seq[i] : i \in 1..Len(seq)}

\* Declared reads / writes lists the planner attaches to the steps.  Two
\* declaration profiles: a producer/consumer chain, and two writers of one key.
Declarations ==
    { [reads  |-> [s \in Steps |-> CASE s = "T1" -> << >>
                                     [] s = "T2" -> <<"x">>
                                     [] OTHER    -> <<"x", "y">>],
       writes |-> [s \in Steps |-> CASE s = "T1" -> <<"x">>
                                     [] s = "T2" -> <<"y">>
                                     [] OTHER    -> << >>]],
      [reads  |-> [s \in Steps |-> CASE s = "T3" -> <<"x">>
                                     [] OTHER    -> << >>],
       writes |-> [s \in Steps |-> CASE s = "T3" -> <<"y">>
                                     [] OTHER    -> <<"x">>]] }

\* ROOT -> s for every step s that depends on no other step.
RootEdges(E) == {<<ROOT, s>> : s \in {t \in Steps : ~\E p \in Steps : <<p, t>> \in E}}

\* Edge sets the planner may emit: any set of at most MaxEdges dependency
\* edges source -> target between steps (cycles and self-loops included: the
\* core does not validate the plan), anchored at ROOT.
PlanEdges ==
    {E \cup RootEdges(E) :
        E \in {D \in SUBSET (Steps \X Steps) : Cardinality(D) <= MaxEdges}}

-----------------------------------------------------------------------------
(* Values                                                                   *)

\* Python None.
None == [kind |-> "none"]

\* A capability output: a dict that may carry call_self and that contains
\* the sub-fields `fields` (a subset of the namespace keys).
Output(s, turn, cs, fields) ==
    [step |-> s, turn |-> turn, call_self |-> cs, fields |-> fields]

\* The value an output holds under sub-field k.
FieldValue(out, k) == [by |-> out.step, turn |-> out.turn]

\* The error attribute of a node no error was recorded on.
NoError == ""

\* invoke(...) -> {success, output?, error?}, or an exception.
Success(out) == [kind |-> "result", success |-> TRUE, output |-> out]
Failure(err) == [kind |-> "result", success |-> FALSE, error |-> err]
Raised(msg) == [kind |-> "exception", msg |-> msg]

\* The inputs mapping of a task that resolved nothing.
NoInputs == [k \in {} |-> None]

\* The planner's output: a dict with the key plan_graph, or one without it.
PlanOutput(g) == [plan_graph |-> g]
PlanOutputWithoutGraph == [note |-> "no plan"]

\* The empty dict replay_node returns when it has nothing to hand back.
EmptyDict == [kind |-> "empty"]

\* The context object AgentLoop4.run hands back.
ContextObject == [kind |-> "context"]

\* The sub-field sets an output of step s may carry: all declared writes or
\* none of them.
FieldChoices(w) == {Range(w), {}}

VARIABLES
    edges,                  \* plan_graph.edges()
    reads,                  \* node attribute reads
    writes,                 \* node attribute writes
    status,                 \* node attribute status (ROOT included)
    output,                 \* node attribute output
    error,                  \* node attribute error
    iterations,             \* node attribute iterations
    call_self_used,         \* node attribute call_self_used
    final_iteration_output, \* node attribute final_iteration_output
    globals_schema,         \* plan_graph.graph['globals_schema']
    pc,                     \* position of _execute_dag
    iteration,              \* local iteration of _execute_dag
    ready_steps,            \* local ready_steps of _execute_dag
    task,                   \* position of each _execute_step task
    first,                  \* local result of each _execute_step task
    second,                 \* local second_result of each _execute_step task
    results,                \* what asyncio.gather collects per task
    idx,                    \* position in the result-processing loop
    calls,                  \* number of capability invocations per step
    inputs,                 \* local inputs of each _execute_step task
    plan_result,            \* local plan_result of AgentLoop4.run
    constructed,            \* an ExecutionContextManager has been constructed
    run_result,             \* what AgentLoop4.run returned or raised
    HAS_MCP,                \* module flag HAS_MCP of graph_debugger.py
    read_only,              \* GraphDebugger.read_only
    agent_runner,           \* GraphDebugger.agent_runner is not None
    session_id,             \* plan_graph.graph['session_id']
    document,               \* the persisted session document that was loaded
    saved,                  \* the document written by the last save_session
    original_session_id,    \* local original_session_id of load_session
    original_session_file,  \* GraphDebugger.original_session_file
    output_path,            \* the path the last save_session wrote to
    cmd,                    \* local cmd of GraphDebuggerCLI.start
    node_id,                \* argument node_id of replay_node
    replay_result,          \* what replay_node returned or raised
    commands,               \* number of debugger commands issued
    step_id,                \* argument step_id of one _execute_step call
    step_data,              \* local step_data of that call
    agent_input,            \* local agent_input of that call
    second_agent_input,     \* local second_agent_input of that call
    execution_result        \* local execution_result of that call

graphVars == <<nodes, edges, reads, writes>>
nodeVars == <<status, output, error>>
selfVars == <<iterations, call_self_used, final_iteration_output>>
loopVars == <<pc, iteration, ready_steps, idx>>
taskVars == <<task, first, second, results, calls, inputs>>
runVars == <<plan_result, constructed, run_result>>
dbgVars == <<HAS_MCP, read_only, agent_runner, session_id, document, saved,
             original_session_id, original_session_file, output_path, cmd,
             node_id, replay_result, commands>>

stepVars == <<step_id, step_data, agent_input, second_agent_input,
              execution_result>>

vars == <<nodes, edges, reads, writes, status, output, error, iterations,
          call_self_used, final_iteration_output, globals_schema, pc,
          iteration, ready_steps, task, first, second, results, idx, calls,
          inputs, plan_result, constructed, run_result, HAS_MCP, read_only,
          agent_runner, session_id, document, saved, original_session_id,
          original_session_file, output_path, cmd, node_id, replay_result,
          commands, step_id, step_data, agent_input, second_agent_input,
          execution_result>>

-----------------------------------------------------------------------------
(* Execution Context: queries and status transitions over the plan graph    *)

\* The graph state the Execution Context owns, as one value.
Context ==
    [status |-> status, output |-> output, error |-> error,
     globals_schema |-> globals_schema]

Predecessors(n) == {p \in Nodes : <<p, n>> \in edges}

\* (mutant) readiness that looks at the step's own status only.
IsReady_StatusOnly(s) == status[s] = "pending"

\* Readiness of one step: pending, and every direct predecessor other than
\* ROOT completed.
IsReady(s) ==
    /\ status[s] = "pending"
    /\ \A p \in Predecessors(s) \ {ROOT} : status[p] = "completed"

\* get_ready_steps(): the ready step ids, in node order.
get_ready_steps == SelectSeq(StepOrder, IsReady)

\* (mutant) an aggregation that counts ROOT as well.
all_done_IncludesRoot == \A n \in Nodes : status[n] \in {"completed", "failed"}

\* all_done(): every non-ROOT node is completed or failed.
all_done == \A s \in Nodes \ {ROOT} : status[s] \in {"completed", "failed"}

\* get_inputs(reads): the declared reads found in globals_schema.
get_inputs(rs) ==
    [k \in Range(rs) \cap DOMAIN globals_schema |-> globals_schema[k]]

mark_running(ctx, s) == [ctx EXCEPT !.status[s] = "running"]

\* (mutant) a merge that keeps only the keys of the output.
MergeWrites_Replace(g, w, out) ==
    [k \in Range(w) \cap out.fields |-> FieldValue(out, k)]

\* The namespace after merging the declared writes found in the output.
MergeWrites(g, w, out) ==
    [k \in DOMAIN g \cup (Range(w) \cap out.fields) |->
        IF k \in Range(w) \cap out.fields THEN FieldValue(out, k) ELSE g[k]]

\* (mutant) a completion that fails the step when a declared write is absent
\* from the output.
mark_done_StrictWrites(ctx, s, out) ==
    IF Range(writes[s]) \subseteq out.fields
    THEN [ctx EXCEPT !.status[s] = "completed",
                     !.output[s] = out,
                     !.globals_schema = MergeWrites(@, writes[s], out)]
    ELSE [ctx EXCEPT !.status[s] = "failed", !.error[s] = "missing write"]

mark_done(ctx, s, out) ==
    [ctx EXCEPT !.status[s] = "completed",
                !.output[s] = out,
                !.globals_schema = MergeWrites(@, writes[s], out)]

\* (mutant) a failure that cascades to the direct dependents.
mark_failed_cascade(ctx, s, err) ==
    [ctx EXCEPT !.status = [n \in Nodes |->
                              IF n = s \/ <<s, n>> \in edges THEN "failed"
                              ELSE @[n]],
                !.error[s] = err]

mark_failed(ctx, s, err) ==
    [ctx EXCEPT !.status[s] = "failed", !.error[s] = err]

-----------------------------------------------------------------------------
(* Step Runner: AgentLoop4._execute_step                                    *)

\* What one capability invocation of step s in turn t may produce.
Outcomes(s, t) ==
    {Raised("boom"), Failure("agent_error")}
    \cup {Success(Output(s, t, cs, f)) :
             cs \in BOOLEAN, f \in FieldChoices(writes[s])}

\* iterations_data after the second invocation.
iterations_data(out, second_result) ==
    IF second_result.success
    THEN <<[iteration |-> 1, output |-> out],
           [iteration |-> 2, output |-> second_result.output]>>
    ELSE <<[iteration |-> 1, output |-> out], None>>

\* (mutant) the first turn's result is returned whatever the second did.
final_result_AlwaysFirst(result, second_result) == result

\* (mutant) the fallback after a failed second turn loses the first output.
final_result_EmptyFallback(result, second_result) ==
    IF second_result.success THEN second_result
    ELSE [result EXCEPT !.output = None]

\* final_result after the second invocation.
final_result(result, second_result) ==
    IF second_result.success THEN second_result ELSE result

\* (mutant) a step runner that invokes the capability once more when the
\* first invocation returns a failure.
TaskTurn1_RetryOnFailure(s) ==
    /\ pc = "gather"
    /\ task[s] = "turn1"
    /\ \E r \in Outcomes(s, 1), retry \in Outcomes(s, 1) :
         /\ UNCHANGED <<second, inputs>>
         /\ first' = [first EXCEPT ![s] = IF r.kind = "result" THEN r ELSE @]
         /\ IF r.kind = "result" /\ r.success /\ r.output.call_self
            THEN /\ task' = [task EXCEPT ![s] = "turn2"]
                 /\ calls' = [calls EXCEPT ![s] = @ + 1]
                 /\ UNCHANGED results
            ELSE IF r.kind = "result" /\ ~r.success
            THEN /\ task' = [task EXCEPT ![s] = "settled"]
                 /\ calls' = [calls EXCEPT ![s] = @ + 2]
                 /\ results' = [results EXCEPT ![s] = retry]
            ELSE /\ task' = [task EXCEPT ![s] = "settled"]
                 /\ calls' = [calls EXCEPT ![s] = @ + 1]
                 /\ results' = [results EXCEPT ![s] = r]
    /\ UNCHANGED <<graphVars, runVars, dbgVars, stepVars, nodeVars, selfVars,
                   globals_schema, loopVars>>

\* (mutant) a step runner that records its single turn on the node.
TaskTurn1_RecordsSingleTurn(s) ==
    /\ pc = "gather"
    /\ task[s] = "turn1"
    /\ \E r \in Outcomes(s, 1) :
         /\ calls' = [calls EXCEPT ![s] = @ + 1]
         /\ UNCHANGED <<second, inputs>>
         /\ first' = [first EXCEPT ![s] = IF r.kind = "result" THEN r ELSE @]
         /\ IF r.kind = "result" /\ r.success /\ r.output.call_self
            THEN /\ task' = [task EXCEPT ![s] = "turn2"]
                 /\ UNCHANGED <<results, selfVars>>
            ELSE /\ task' = [task EXCEPT ![s] = "settled"]
                 /\ results' = [results EXCEPT ![s] = r]
                 /\ IF r.kind = "result" /\ r.success
                    THEN /\ final_iteration_output' =
                              [final_iteration_output EXCEPT ![s] = r.output]
                         /\ UNCHANGED <<iterations, call_self_used>>
                    ELSE UNCHANGED selfVars
    /\ UNCHANGED <<graphVars, runVars, dbgVars, stepVars, nodeVars, globals_schema, loopVars>>

\* First invocation returns (or raises).  Without call_self, or on failure,
\* the task settles with that result; with call_self it goes on to turn two.
TaskTurn1(s) ==
    /\ pc = "gather"
    /\ task[s] = "turn1"
    /\ \E r \in Outcomes(s, 1) :
         /\ calls' = [calls EXCEPT ![s] = @ + 1]
         /\ UNCHANGED <<second, inputs>>
         /\ first' = [first EXCEPT ![s] = IF r.kind = "result" THEN r ELSE @]
         /\ IF r.kind = "result" /\ r.success /\ r.output.call_self
            THEN /\ task' = [task EXCEPT ![s] = "turn2"]
                 /\ UNCHANGED results
            ELSE /\ task' = [task EXCEPT ![s] = "settled"]
                 /\ results' = [results EXCEPT ![s] = r]
    /\ UNCHANGED <<graphVars, runVars, dbgVars, stepVars, nodeVars, selfVars, globals_schema, loopVars>>

\* (mutant) a step runner that goes on to a third invocation when the second
\* output sets call_self as well.
TaskTurn2_Again(s) ==
    /\ pc = "gather"
    /\ task[s] = "turn2"
    /\ \E r2 \in Outcomes(s, 2) :
         /\ calls' = [calls EXCEPT ![s] = @ + 1]
         /\ UNCHANGED <<first, inputs>>
         /\ IF r2.kind = "exception"
            THEN /\ task' = [task EXCEPT ![s] = "settled"]
                 /\ second' = [second EXCEPT ![s] = r2]
                 /\ results' = [results EXCEPT ![s] = r2]
                 /\ UNCHANGED selfVars
            ELSE IF r2.success /\ r2.output.call_self /\ calls[s] = 1
            THEN UNCHANGED <<task, second, results, selfVars>>
            ELSE /\ task' = [task EXCEPT ![s] = "settled"]
                 /\ second' = [second EXCEPT ![s] = r2]
                 /\ iterations' =
                      [iterations EXCEPT
                          ![s] = iterations_data(first[s].output, r2)]
                 /\ call_self_used' = [call_self_used EXCEPT ![s] = TRUE]
                 /\ final_iteration_output' =
                      [final_iteration_output EXCEPT
                          ![s] = final_result(first[s], r2).output]
                 /\ results' =
                      [results EXCEPT ![s] = final_result(first[s], r2)]
    /\ UNCHANGED <<graphVars, runVars, dbgVars, stepVars, nodeVars, globals_schema, loopVars>>

\* Second invocation returns (or raises): both turns are stored on the node
\* and the task settles with the final result.
TaskTurn2(s) ==
    /\ pc = "gather"
    /\ task[s] = "turn2"
    /\ \E r2 \in Outcomes(s, 2) :
         /\ calls' = [calls EXCEPT ![s] = @ + 1]
         /\ task' = [task EXCEPT ![s] = "settled"]
         /\ second' = [second EXCEPT ![s] = r2]
         /\ UNCHANGED <<first, inputs>>
         /\ IF r2.kind = "exception"
            THEN /\ results' = [results EXCEPT ![s] = r2]
                 /\ UNCHANGED selfVars
            ELSE /\ iterations' =
                      [iterations EXCEPT
                          ![s] = iterations_data(first[s].output, r2)]
                 /\ call_self_used' = [call_self_used EXCEPT ![s] = TRUE]
                 /\ final_iteration_output' =
                      [final_iteration_output EXCEPT
                          ![s] = final_result(first[s], r2).output]
                 /\ results' =
                      [results EXCEPT ![s] = final_result(first[s], r2)]
    /\ UNCHANGED <<graphVars, runVars, dbgVars, stepVars, nodeVars, globals_schema, loopVars>>

-----------------------------------------------------------------------------
(* Scheduler Loop: AgentLoop4._execute_dag                                  *)

RECURSIVE MarkRunningFrom(_, _, _)
MarkRunningFrom(ctx, ready, i) ==
    IF i > Len(ready) THEN ctx
    ELSE MarkRunningFrom(mark_running(ctx, ready[i]), ready, i + 1)

\* (mutant) the batch is dispatched without being marked running.
MarkRunningAll_Skipped(ctx, ready) == ctx

\* for step_id in ready_steps: context.mark_running(step_id)
MarkRunningAll(ctx, ready) == MarkRunningFrom(ctx, ready, 1)

IsPending(s) == status[s] = "pending"

\* (mutant) a task is created for every pending step, ready or not.
Tasks_AllPending(ready) == SelectSeq(StepOrder, IsPending)

\* Every declared read of step s is in the namespace.
ReadsComplete(s) == Range(reads[s]) \subseteq DOMAIN globals_schema

\* (mutant) a task is created only for the ready steps whose reads are all
\* in the namespace.
Tasks_ReadsComplete(ready) == SelectSeq(ready, ReadsComplete)

\* The step ids a task is created for.
Tasks(ready) == ready

\* (mutant) a gather that raises the first exception of a task.
return_exceptions_off == FALSE

\* asyncio.gather(*tasks, return_exceptions=True)
return_exceptions == TRUE

\* (mutant) the results are processed as soon as one task has settled.
GatherSettled_Any(batch) == \E s \in Range(batch) : task[s] = "settled"

\* The gather is over once every task of the batch has settled.
GatherSettled(batch) == \A s \in Range(batch) : task[s] = "settled"

\* (mutant) a failure check that never sees a failure.
has_failures_Never == FALSE

\* (mutant) a failure check that always reports one.
has_failures_Always == TRUE

\* any(status == 'failed' for n in plan_graph.nodes)
has_failures == \E n \in Nodes : status[n] = "failed"

\* (mutant) an exception result is left unprocessed.
ApplyResult_SkipException(ctx, s, r) ==
    IF r.kind = "exception" THEN ctx
    ELSE IF r.success THEN mark_done(ctx, s, r.output)
    ELSE mark_failed(ctx, s, r.error)

\* (mutant) the error text of a structured failure is dropped.
ApplyResult_DropError(ctx, s, r) ==
    IF r.kind = "exception" THEN mark_failed(ctx, s, r.msg)
    ELSE IF r.success THEN mark_done(ctx, s, r.output)
    ELSE mark_failed(ctx, s, NoError)

\* Processing of one (step_id, result) pair.
ApplyResult(ctx, s, r) ==
    IF r.kind = "exception" THEN mark_failed(ctx, s, r.msg)
    ELSE IF r.success THEN mark_done(ctx, s, r.output)
    ELSE mark_failed(ctx, s, r.error)

SetContext(ctx) ==
    /\ status' = ctx.status
    /\ output' = ctx.output
    /\ error' = ctx.error
    /\ globals_schema' = ctx.globals_schema

\* (mutant) a loop that gives up one iteration early.
LoopExit_OffByOne ==
    /\ pc = "loop"
    /\ all_done \/ iteration + 1 >= max_iterations
    /\ pc' = "done"
    /\ UNCHANGED <<graphVars, runVars, dbgVars, stepVars, nodeVars, selfVars, globals_schema, iteration,
                   ready_steps, idx, taskVars>>

\* The while condition is false: the loop is left.
LoopExit ==
    /\ pc = "loop"
    /\ all_done \/ iteration >= max_iterations
    /\ pc' = "done"
    /\ UNCHANGED <<graphVars, runVars, dbgVars, stepVars, nodeVars, selfVars, globals_schema, iteration,
                   ready_steps, idx, taskVars>>

\* No step is ready and no node has failed: sleep and retry.
IdleWait ==
    /\ pc = "loop"
    /\ ~all_done /\ iteration < max_iterations
    /\ get_ready_steps = << >>
    /\ ~has_failures
    /\ iteration' = iteration + 1
    /\ ready_steps' = << >>
    /\ pc' = "sleep"
    /\ UNCHANGED <<graphVars, runVars, dbgVars, stepVars, nodeVars, selfVars, globals_schema, idx,
                   taskVars>>

\* asyncio.sleep(0.3) returns: continue.
WakeUp ==
    /\ pc = "sleep"
    /\ pc' = "loop"
    /\ UNCHANGED <<graphVars, runVars, dbgVars, stepVars, nodeVars, selfVars, globals_schema, iteration,
                   ready_steps, idx, taskVars>>

\* (mutant) a loop that stops at the first pass that sees a failed node,
\* ready steps or not.
BreakOnFailure_Eager ==
    /\ pc = "loop"
    /\ ~all_done /\ iteration < max_iterations
    /\ has_failures
    /\ iteration' = iteration + 1
    /\ ready_steps' = << >>
    /\ pc' = "done"
    /\ UNCHANGED <<graphVars, runVars, dbgVars, stepVars, nodeVars, selfVars, globals_schema, idx,
                   taskVars>>

\* No step is ready and some node has failed: break.
BreakOnFailure ==
    /\ pc = "loop"
    /\ ~all_done /\ iteration < max_iterations
    /\ get_ready_steps = << >>
    /\ has_failures
    /\ iteration' = iteration + 1
    /\ ready_steps' = << >>
    /\ pc' = "done"
    /\ UNCHANGED <<graphVars, runVars, dbgVars, stepVars, nodeVars, selfVars, globals_schema, idx,
                   taskVars>>

\* (mutant) a loop that counts only the passes that dispatch nothing.
Dispatch_Uncounted ==
    /\ pc = "loop"
    /\ ~all_done /\ iteration < max_iterations
    /\ get_ready_steps # << >>
    /\ iteration' = iteration
    /\ ready_steps' = get_ready_steps
    /\ SetContext(MarkRunningAll(Context, get_ready_steps))
    /\ task' = [s \in Steps |->
                  IF s \in Range(Tasks(get_ready_steps)) THEN "turn1"
                  ELSE "none"]
    /\ first' = [s \in Steps |-> None]
    /\ second' = [s \in Steps |-> None]
    /\ results' = [s \in Steps |-> None]
    /\ inputs' = [s \in Steps |->
                    IF s \in Range(Tasks(get_ready_steps))
                    THEN get_inputs(reads[s]) ELSE NoInputs]
    /\ pc' = "gather"
    /\ UNCHANGED <<graphVars, runVars, dbgVars, stepVars, selfVars, idx, calls>>

\* Some step is ready: mark the batch running, create its tasks and await
\* the gather.  Every task runs up to its first capability invocation.
Dispatch ==
    /\ pc = "loop"
    /\ ~all_done /\ iteration < max_iterations
    /\ get_ready_steps # << >>
    /\ iteration' = iteration + 1
    /\ ready_steps' = get_ready_steps
    /\ SetContext(MarkRunningAll(Context, get_ready_steps))
    /\ task' = [s \in Steps |->
                  IF s \in Range(Tasks(get_ready_steps)) THEN "turn1"
                  ELSE "none"]
    /\ first' = [s \in Steps |-> None]
    /\ second' = [s \in Steps |-> None]
    /\ results' = [s \in Steps |-> None]
    /\ inputs' = [s \in Steps |->
                    IF s \in Range(Tasks(get_ready_steps))
                    THEN get_inputs(reads[s]) ELSE NoInputs]
    /\ pc' = "gather"
    /\ UNCHANGED <<graphVars, runVars, dbgVars, stepVars, selfVars, idx, calls>>

\* The gather returns once all tasks have settled; exceptions come back as
\* results.  (Without return_exceptions the first exception would be raised
\* out of the gather and out of the loop.)
Gather ==
    /\ pc = "gather"
    /\ IF ~return_exceptions
          /\ \E s \in Range(Tasks(ready_steps)) : results[s].kind = "exception"
       THEN pc' = "raised" /\ UNCHANGED idx
       ELSE /\ GatherSettled(Tasks(ready_steps))
            /\ pc' = "process"
            /\ idx' = 1
    /\ UNCHANGED <<graphVars, runVars, dbgVars, stepVars, nodeVars, selfVars, globals_schema, iteration,
                   ready_steps, taskVars>>

\* One pass of the result loop: for step_id, result in zip(ready_steps, results).
ProcessResult ==
    /\ pc = "process"
    /\ idx <= Len(ready_steps)
    /\ results[ready_steps[idx]] # None
    /\ SetContext(ApplyResult(Context, ready_steps[idx],
                              results[ready_steps[idx]]))
    /\ idx' = idx + 1
    /\ pc' = IF idx = Len(ready_steps) THEN "loop" ELSE "process"
    /\ UNCHANGED <<graphVars, runVars, dbgVars, stepVars, selfVars, iteration, ready_steps, taskVars>>

-----------------------------------------------------------------------------
(* Specification                                                            *)

\* No step runner call is looked at on its own.
NoStepRun ==
    /\ step_id = ROOT
    /\ step_data = None
    /\ agent_input = None
    /\ second_agent_input = None
    /\ execution_result = None

\* No debugger is attached to the run.
NoDebugger ==
    /\ HAS_MCP = TRUE
    /\ read_only = FALSE
    /\ agent_runner = FALSE
    /\ session_id = << >>
    /\ document = None
    /\ saved = None
    /\ original_session_id = << >>
    /\ original_session_file = None
    /\ output_path = None
    /\ cmd = ""
    /\ node_id = ROOT
    /\ replay_result = None
    /\ commands = 0

\* State after the Execution Context is built from the planner's graph:
\* every step pending, no outputs, empty namespace.
Init ==
    /\ nodes = PlanOrder
    /\ edges \in PlanEdges
    /\ \E d \in Declarations : reads = d.reads /\ writes = d.writes
    /\ \E r \in {"pending", "completed"} :
         status = [n \in Nodes |-> IF n = ROOT THEN r ELSE "pending"]
    /\ output = [n \in Nodes |-> None]
    /\ error = [n \in Nodes |-> NoError]
    /\ iterations = [n \in Nodes |-> << >>]   \* no iteration recorded yet
    /\ call_self_used = [n \in Nodes |-> FALSE]
    /\ final_iteration_output = [n \in Nodes |-> None]
    /\ globals_schema = [k \in {} |-> None]
    /\ pc = "loop"
    /\ iteration = 0
    /\ ready_steps = << >>
    /\ task = [s \in Steps |-> "none"]
    /\ first = [s \in Steps |-> None]
    /\ second = [s \in Steps |-> None]
    /\ results = [s \in Steps |-> None]
    /\ idx = 1
    /\ calls = [s \in Steps |-> 0]
    /\ inputs = [s \in Steps |-> NoInputs]
    /\ plan_result =
          Success(PlanOutput([edges |-> edges, reads |-> reads,
                              writes |-> writes]))
    /\ constructed = TRUE
    /\ run_result = None
    /\ NoDebugger
    /\ NoStepRun

Next ==
    \/ LoopExit
    \/ IdleWait
    \/ WakeUp
    \/ BreakOnFailure
    \/ Dispatch
    \/ \E s \in Steps : TaskTurn1(s)
    \/ \E s \in Steps : TaskTurn2(s)
    \/ Gather
    \/ ProcessResult

Spec == Init /\ [][Next]_vars

-----------------------------------------------------------------------------
(* AgentLoop4.run: planning, context construction, execution, return        *)

\* What the planner invocation may produce.
PlannerOutcomes ==
    {Raised("boom"), Failure("planning_error"), Success(PlanOutputWithoutGraph)}
    \cup {Success(PlanOutput([edges |-> E, reads |-> d.reads,
                              writes |-> d.writes])) :
             E \in PlanEdges, d \in Declarations}

\* if not plan_result["success"]: raise ...
\* if 'plan_graph' not in plan_result['output']: raise ...
PlanningFails(pr) ==
    IF pr.success THEN "plan_graph" \notin DOMAIN pr.output ELSE TRUE

\* No Execution Context exists and nothing runs.
NoContext ==
    /\ nodes = PlanOrder
    /\ edges = {}
    /\ reads = [s \in Steps |-> << >>]
    /\ writes = [s \in Steps |-> << >>]
    /\ status = [n \in Nodes |-> "absent"]
    /\ output = [n \in Nodes |-> None]
    /\ error = [n \in Nodes |-> NoError]
    /\ iterations = [n \in Nodes |-> << >>]
    /\ call_self_used = [n \in Nodes |-> FALSE]
    /\ final_iteration_output = [n \in Nodes |-> None]
    /\ globals_schema = [k \in {} |-> None]
    /\ iteration = 0
    /\ ready_steps = << >>
    /\ task = [s \in Steps |-> "none"]
    /\ first = [s \in Steps |-> None]
    /\ second = [s \in Steps |-> None]
    /\ results = [s \in Steps |-> None]
    /\ idx = 1
    /\ calls = [s \in Steps |-> 0]
    /\ inputs = [s \in Steps |-> NoInputs]

\* run() is entered: nothing is planned and no context exists.
RunInit ==
    /\ pc \in {"profile", "plan"}
    /\ plan_result = None
    /\ constructed = FALSE
    /\ run_result = None
    /\ NoContext
    /\ NoDebugger
    /\ NoStepRun

\* Phase 1: the file-profiling invocation returns (its failure result is
\* ignored) or raises.
ProfileFiles ==
    /\ pc = "profile"
    /\ \E r \in {Raised("boom"), Failure("agent_error"), Success(None)} :
         IF r.kind = "exception"
         THEN pc' = "fatal" /\ run_result' = r
         ELSE pc' = "plan" /\ UNCHANGED run_result
    /\ UNCHANGED <<graphVars, nodeVars, selfVars, globals_schema, iteration,
                   ready_steps, idx, taskVars, plan_result, constructed,
                   dbgVars, stepVars>>

\* Phase 2: the planner invocation raises.
PlanningRaises ==
    /\ pc = "plan"
    /\ pc' = "fatal"
    /\ run_result' = Raised("boom")
    /\ UNCHANGED <<graphVars, nodeVars, selfVars, globals_schema, iteration,
                   ready_steps, idx, taskVars, plan_result, constructed,
                   dbgVars, stepVars>>

\* (mutant) the planner's result is checked only after the context was built.
PlanningFatal_AfterConstruct ==
    /\ pc = "plan"
    /\ \E pr \in PlannerOutcomes :
         /\ pr.kind = "result"
         /\ PlanningFails(pr)
         /\ plan_result' = pr
    /\ constructed' = TRUE
    /\ pc' = "fatal"
    /\ run_result' = Raised("RuntimeError")
    /\ UNCHANGED <<graphVars, nodeVars, selfVars, globals_schema, iteration,
                   ready_steps, idx, taskVars, dbgVars, stepVars>>

\* Phase 2: the planner returns failure or an output without plan_graph:
\* RuntimeError.
PlanningFatal ==
    /\ pc = "plan"
    /\ \E pr \in PlannerOutcomes :
         /\ pr.kind = "result"
         /\ PlanningFails(pr)
         /\ plan_result' = pr
    /\ pc' = "fatal"
    /\ run_result' = Raised("RuntimeError")
    /\ UNCHANGED <<graphVars, nodeVars, selfVars, globals_schema, iteration,
                   ready_steps, idx, taskVars, constructed, dbgVars, stepVars>>

\* Phases 2-4: the planner returns a plan graph; the Execution Context is
\* constructed from it and _execute_dag is entered.
PlanningSucceeds ==
    /\ pc = "plan"
    /\ \E pr \in PlannerOutcomes :
         /\ pr.kind = "result"
         /\ ~PlanningFails(pr)
         /\ plan_result' = pr
         /\ edges' = pr.output.plan_graph.edges
         /\ reads' = pr.output.plan_graph.reads
         /\ writes' = pr.output.plan_graph.writes
    /\ UNCHANGED nodes
    /\ constructed' = TRUE
    /\ \E r \in {"pending", "completed"} :
         status' = [n \in Nodes |-> IF n = ROOT THEN r ELSE "pending"]
    /\ iteration' = 0
    /\ pc' = "loop"
    /\ UNCHANGED <<output, error, selfVars, globals_schema, ready_steps, idx,
                   taskVars, run_result, dbgVars, stepVars>>

\* (mutant) a run that raises when it ends with a failed step.
ReturnContext_RaiseOnFailure ==
    /\ pc = "done"
    /\ IF has_failures
       THEN pc' = "fatal" /\ run_result' = Raised("RuntimeError")
       ELSE pc' = "returned" /\ run_result' = ContextObject
    /\ UNCHANGED <<graphVars, nodeVars, selfVars, globals_schema, iteration,
                   ready_steps, idx, taskVars, plan_result, constructed,
                   dbgVars, stepVars>>

\* Phase 5: _execute_dag has returned: return context.
ReturnContext ==
    /\ pc = "done"
    /\ pc' = "returned"
    /\ run_result' = ContextObject
    /\ UNCHANGED <<graphVars, nodeVars, selfVars, globals_schema, iteration,
                   ready_steps, idx, taskVars, plan_result, constructed,
                   dbgVars, stepVars>>

RunNext ==
    \/ ProfileFiles
    \/ PlanningRaises
    \/ PlanningFatal
    \/ PlanningSucceeds
    \/ Next
    \/ ReturnContext

RunSpec == RunInit /\ [][RunNext]_vars

-----------------------------------------------------------------------------
(* Debug/replay tool: GraphDebugger (src/agentLoop/graph_debugger.py)       *)

\* The plan graph with its node and graph attributes, as one value.
Graph ==
    [edges |-> edges, reads |-> reads, writes |-> writes, status |-> status,
     output |-> output, error |-> error, iterations |-> iterations,
     call_self_used |-> call_self_used,
     final_iteration_output |-> final_iteration_output,
     globals_schema |-> globals_schema, session_id |-> session_id]

\* nx.node_link_data(plan_graph): the graph attributes, one dict per node
\* (its id and attributes) and one {source, target} dict per edge.
node_link_data(g) ==
    [graph |-> [session_id |-> g.session_id,
                globals_schema |-> g.globals_schema],
     nodes |-> {[id |-> n,
                 reads |-> IF n \in Steps THEN g.reads[n] ELSE << >>,
                 writes |-> IF n \in Steps THEN g.writes[n] ELSE << >>,
                 status |-> g.status[n],
                 output |-> g.output[n],
                 error |-> g.error[n],
                 iterations |-> g.iterations[n],
                 call_self_used |-> g.call_self_used[n],
                 final_iteration_output |-> g.final_iteration_output[n]] :
                n \in Nodes},
     links |-> {[source |-> e[1], target |-> e[2]] : e \in g.edges}]

\* (mutant) a serialiser that writes null for every dict.
JsonValue_DictAsNull(v) == [j |-> "null"]

\* json.dump of one nullable dict: None is written as null, a dict as an
\* object with the dict's members.
JsonValue(v) ==
    IF v = None THEN [j |-> "null"] ELSE [j |-> "object", members |-> v]

\* json.dump(graph_data, f, ...): the document written to the file.
JsonDump(data) ==
    [graph |-> [session_id |-> data.graph.session_id,
                globals_schema |->
                    [k \in DOMAIN data.graph.globals_schema |->
                        JsonValue(data.graph.globals_schema[k])]],
     nodes |-> {[a EXCEPT
                   !.output = JsonValue(a.output),
                   !.final_iteration_output =
                       JsonValue(a.final_iteration_output),
                   !.iterations =
                       [i \in DOMAIN a.iterations |->
                           JsonValue(a.iterations[i])]] : a \in data.nodes},
     links |-> data.links]

\* json.load of one value: null is None, an object a dict.
PythonValue(jv) == IF jv.j = "null" THEN None ELSE jv.members

\* The node dict of node n in a session document.
NodeOf(doc, n) == CHOOSE a \in doc.nodes : a.id = n

\* ExecutionContextManager.load_session(session_file): the graph rebuilt
\* from a session document.
load_session(doc) ==
    [edges |-> {<<l.source, l.target>> : l \in doc.links},
     reads |-> [s \in Steps |-> NodeOf(doc, s).reads],
     writes |-> [s \in Steps |-> NodeOf(doc, s).writes],
     status |-> [n \in Nodes |-> NodeOf(doc, n).status],
     output |-> [n \in Nodes |-> PythonValue(NodeOf(doc, n).output)],
     error |-> [n \in Nodes |-> NodeOf(doc, n).error],
     iterations |->
         [n \in Nodes |->
             [i \in DOMAIN NodeOf(doc, n).iterations |->
                 PythonValue(NodeOf(doc, n).iterations[i])]],
     call_self_used |-> [n \in Nodes |-> NodeOf(doc, n).call_self_used],
     final_iteration_output |->
         [n \in Nodes |-> PythonValue(NodeOf(doc, n).final_iteration_output)],
     globals_schema |->
         [k \in DOMAIN doc.graph.globals_schema |->
             PythonValue(doc.graph.globals_schema[k])],
     session_id |-> doc.graph.session_id]

\* Readings of datetime.now().strftime('%H%M%S').
Clock == {"101500", "101501"}

\* (mutant) a load that keeps the persisted session id.
debug_session_id_Same(id, hhmmss) == id

\* f"{original_session_id}_debug_{datetime.now().strftime('%H%M%S')}"
debug_session_id(id, hhmmss) == id \o <<"_debug_", hhmmss>>

\* self.context.mark_done(node_id, result["output"]) without await: the call
\* of the coroutine function (flow.py awaits it) only creates a coroutine
\* object, which is never scheduled, so the body of mark_done does not run.
mark_done_unawaited(ctx, s, out) == ctx

\* The plans of the persisted sessions: a chain and a fork.
DebugPlans ==
    {E \cup RootEdges(E) :
        E \in {{<<"T1", "T2">>, <<"T2", "T3">>},
               {<<"T1", "T2">>, <<"T1", "T3">>}}}

\* The output a completed step of a persisted session holds.
PersistedOutput(s, w) == Output(s, 1, FALSE, Range(w[s]))

\* The namespace of a persisted session: the merged outputs of its completed
\* steps, up to step number i.
RECURSIVE NamespaceOf(_, _, _)
NamespaceOf(st, w, i) ==
    IF i = 0 THEN [k \in {} |-> None]
    ELSE IF st[StepOrder[i]] = "completed"
         THEN MergeWrites(NamespaceOf(st, w, i - 1), w[StepOrder[i]],
                          PersistedOutput(StepOrder[i], w))
         ELSE NamespaceOf(st, w, i - 1)

\* Sessions a scheduler run leaves behind: a step is completed or failed only
\* if all its predecessors are completed.
SessionsOf(E) ==
    {[edges |-> E, reads |-> d.reads, writes |-> d.writes,
      status |-> [n \in Nodes |-> IF n = ROOT THEN "pending" ELSE st[n]],
      output |-> [n \in Nodes |->
                    IF n \in Steps /\ st[n] = "completed"
                    THEN PersistedOutput(n, d.writes) ELSE None],
      error |-> [n \in Nodes |->
                    IF n \in Steps /\ st[n] = "failed"
                    THEN "agent_error" ELSE NoError],
      iterations |-> [n \in Nodes |-> << >>],
      call_self_used |-> [n \in Nodes |-> FALSE],
      final_iteration_output |-> [n \in Nodes |-> None],
      globals_schema |-> NamespaceOf(st, d.writes, Len(StepOrder)),
      session_id |-> <<"50916864">>] :
        d \in Declarations,
        st \in {f \in [Steps -> {"pending", "completed", "failed"}] :
                  \A s \in Steps :
                      f[s] # "pending" =>
                          \A p \in Steps :
                              <<p, s>> \in E => f[p] = "completed"}}

PersistedSessions == UNION {SessionsOf(E) : E \in DebugPlans}

\* The session document the Execution Context persisted for graph g at the
\* end of a run: graph attributes, node list with attributes, edge list.
SessionDocument(g) ==
    [graph |-> [session_id |-> g.session_id,
                globals_schema |->
                    [k \in DOMAIN g.globals_schema |->
                        [j |-> "object", members |-> g.globals_schema[k]]]],
     nodes |-> {[id |-> n,
                 reads |-> IF n \in Steps THEN g.reads[n] ELSE << >>,
                 writes |-> IF n \in Steps THEN g.writes[n] ELSE << >>,
                 status |-> g.status[n],
                 output |-> IF g.output[n] = None THEN [j |-> "null"]
                            ELSE [j |-> "object", members |-> g.output[n]],
                 error |-> g.error[n],
                 iterations |-> << >>,
                 call_self_used |-> g.call_self_used[n],
                 final_iteration_output |-> [j |-> "null"]] : n \in Nodes},
     links |-> {[source |-> e[1], target |-> e[2]] : e \in g.edges}]

\* The session files on disk: the original one and, once written, the
\* debug file.
SessionFiles == {d \in {document, saved} : d # None}

\* A path: its directory and the stem of its file name, the stem cut at the
\* places the debugger looks at; the suffix is .json throughout.
Path(dir, stem) == [dir |-> dir, stem |-> stem]

\* Where the Execution Context persisted the session of the run.
SessionPath == Path("memory", <<"session_", "50916864">>)

\* The paths of the session files on disk.
FilePaths == {SessionPath} \cup (IF saved = None THEN {} ELSE {output_path})

\* The document the file at path p holds.
FileAt(p) == IF p = SessionPath THEN document ELSE saved

\* Readings of datetime.now().strftime("%Y%m%d_%H%M%S").
Timestamps == {"20250101_101500"}

\* The paths the operator may give to the save command: a fresh one, or the
\* path of the session file of the run.
OperatorPaths == {Path("memory", <<"copy">>), SessionPath}

\* original_session_file.stem.replace('session_', '')
original_id(file) ==
    IF file = None THEN <<"unknown">>
    ELSE SelectSeq(file.stem, LAMBDA part : part # "session_")

\* The path save_session writes to: the path given, else
\* memory/debug_session_{original_id}_{timestamp}.json.
save_path(arg, file, timestamp) ==
    IF arg # None THEN arg
    ELSE Path("memory",
              <<"debug_", "session_">> \o original_id(file)
                  \o <<"_", timestamp>>)

\* The graph g becomes the graph of the context.
SetGraph(g) ==
    /\ edges' = g.edges
    /\ reads' = g.reads
    /\ writes' = g.writes
    /\ status' = g.status
    /\ output' = g.output
    /\ error' = g.error
    /\ iterations' = g.iterations
    /\ call_self_used' = g.call_self_used
    /\ final_iteration_output' = g.final_iteration_output
    /\ globals_schema' = g.globals_schema

\* GraphDebuggerCLI.start has built the debugger: with a backend, with the
\* backend's initialisation failed, or without the MCP modules.  A session
\* file is on disk; nothing is loaded.
DebugInit ==
    /\ NoContext
    /\ \E has \in BOOLEAN, mcp \in BOOLEAN :
         /\ mcp => has
         /\ HAS_MCP = has
         /\ read_only = ~has
         /\ agent_runner = mcp
    /\ document \in {SessionDocument(g) : g \in PersistedSessions}
    /\ saved = None
    /\ session_id = << >>
    /\ original_session_id = << >>
    /\ original_session_file = None
    /\ output_path = None
    /\ cmd = ""
    /\ node_id = ROOT
    /\ replay_result = None
    /\ commands = 0
    /\ pc = "idle"
    /\ plan_result = None
    /\ constructed = FALSE
    /\ run_result = None
    /\ NoStepRun

\* load <session_file>: GraphDebugger.load_session.
LoadSession ==
    /\ pc = "idle"
    /\ commands < MaxCommands
    /\ \E session_path \in FilePaths, hhmmss \in Clock :
         LET doc == FileAt(session_path)
         IN  /\ original_session_file' = session_path
             /\ SetGraph(load_session(doc))
             /\ original_session_id' = load_session(doc).session_id
             /\ session_id' =
                   debug_session_id(load_session(doc).session_id, hhmmss)
    /\ constructed' = TRUE
    /\ cmd' = "load"
    /\ commands' = commands + 1
    /\ UNCHANGED <<nodes, pc, iteration, ready_steps, idx, taskVars, plan_result,
                   run_result, HAS_MCP, read_only, agent_runner, document,
                   saved, output_path, node_id, replay_result, stepVars>>

\* replay <node_id> in read-only mode or with no session loaded: return {}.
ReplayRefused ==
    /\ pc = "idle"
    /\ commands < MaxCommands
    /\ read_only \/ ~constructed
    /\ \E n \in Steps : node_id' = n
    /\ replay_result' = EmptyDict
    /\ cmd' = "replay"
    /\ commands' = commands + 1
    /\ UNCHANGED <<graphVars, nodeVars, selfVars, globals_schema, loopVars,
                   taskVars, runVars, stepVars, HAS_MCP, read_only, agent_runner,
                   session_id, document, saved, original_session_id,
                   original_session_file, output_path>>

\* replay <node_id>: the inputs are resolved, the node is reset and the
\* capability is invoked; with no agent runner the invocation raises
\* AttributeError, which the command loop catches.
ReplayStart ==
    /\ pc = "idle"
    /\ commands < MaxCommands
    /\ ~read_only /\ constructed
    /\ \E n \in Steps :
         /\ node_id' = n
         /\ inputs' = [inputs EXCEPT ![n] = get_inputs(reads[n])]
         /\ status' = [status EXCEPT ![n] = "pending"]
         /\ output' = [output EXCEPT ![n] = None]
         /\ first' = [first EXCEPT ![n] = None]
         /\ second' = [second EXCEPT ![n] = None]
    /\ IF agent_runner
       THEN pc' = "replay1" /\ replay_result' = None
       ELSE pc' = "idle" /\ replay_result' = Raised("AttributeError")
    /\ cmd' = "replay"
    /\ commands' = commands + 1
    /\ UNCHANGED <<graphVars, error, selfVars, globals_schema, iteration,
                   ready_steps, idx, task, results, calls, runVars, stepVars, HAS_MCP,
                   read_only, agent_runner, session_id, document, saved,
                   original_session_id, original_session_file, output_path>>

\* (mutant) a replay that marks the node failed when the invocation returns
\* success = false.
ReplayTurn1_MarkFailed ==
    /\ pc = "replay1"
    /\ \E r \in Outcomes(node_id, 1) :
         /\ calls' = [calls EXCEPT ![node_id] = @ + 1]
         /\ first' = [first EXCEPT ![node_id] =
                         IF r.kind = "result" THEN r ELSE @]
         /\ IF r.kind = "exception"
            THEN /\ replay_result' = r
                 /\ pc' = "idle"
                 /\ UNCHANGED <<nodeVars, globals_schema>>
            ELSE IF ~r.success
            THEN /\ replay_result' = EmptyDict
                 /\ pc' = "idle"
                 /\ SetContext(mark_failed(Context, node_id, r.error))
            ELSE /\ SetContext(mark_done_unawaited(Context, node_id, r.output))
                 /\ IF r.output.call_self
                    THEN pc' = "replay2" /\ UNCHANGED replay_result
                    ELSE pc' = "idle" /\ replay_result' = r.output
    /\ UNCHANGED <<graphVars, selfVars, iteration, ready_steps, idx, task,
                   second, results, inputs, runVars, stepVars, HAS_MCP, read_only,
                   agent_runner, session_id, document, saved,
                   original_session_id, original_session_file, output_path,
                   cmd, node_id, commands>>

\* The replay's first invocation returns (or raises).
ReplayTurn1 ==
    /\ pc = "replay1"
    /\ \E r \in Outcomes(node_id, 1) :
         /\ calls' = [calls EXCEPT ![node_id] = @ + 1]
         /\ first' = [first EXCEPT ![node_id] =
                         IF r.kind = "result" THEN r ELSE @]
         /\ IF r.kind = "exception"
            THEN /\ replay_result' = r
                 /\ pc' = "idle"
                 /\ UNCHANGED <<nodeVars, globals_schema>>
            ELSE IF ~r.success
            THEN /\ replay_result' = EmptyDict
                 /\ pc' = "idle"
                 /\ UNCHANGED <<nodeVars, globals_schema>>
            ELSE /\ SetContext(mark_done_unawaited(Context, node_id, r.output))
                 /\ IF r.output.call_self
                    THEN pc' = "replay2" /\ UNCHANGED replay_result
                    ELSE pc' = "idle" /\ replay_result' = r.output
    /\ UNCHANGED <<graphVars, selfVars, iteration, ready_steps, idx, task,
                   second, results, inputs, runVars, stepVars, HAS_MCP, read_only,
                   agent_runner, session_id, document, saved,
                   original_session_id, original_session_file, output_path,
                   cmd, node_id, commands>>

\* The replay's second invocation returns (or raises): both turns go to
\* memory/temp.json only, and the first output is returned.
ReplayTurn2 ==
    /\ pc = "replay2"
    /\ \E r2 \in Outcomes(node_id, 2) :
         /\ calls' = [calls EXCEPT ![node_id] = @ + 1]
         /\ second' = [second EXCEPT ![node_id] = r2]
         /\ replay_result' =
               IF r2.kind = "exception" THEN r2 ELSE first[node_id].output
    /\ pc' = "idle"
    /\ UNCHANGED <<graphVars, nodeVars, selfVars, globals_schema, iteration,
                   ready_steps, idx, task, first, results, inputs, runVars, stepVars,
                   HAS_MCP, read_only, agent_runner, session_id, document,
                   saved, original_session_id, original_session_file,
                   output_path, cmd, node_id, commands>>

\* save [path]: GraphDebugger.save_session writes the graph to the path
\* given, or to the default debug path (nothing when no session is loaded).
\* A file already at that path is written over.
SaveSession ==
    /\ pc = "idle"
    /\ commands < MaxCommands
    /\ IF constructed
       THEN \E arg \in {None} \cup OperatorPaths, timestamp \in Timestamps :
               LET debug_file ==
                       save_path(arg, original_session_file, timestamp)
               IN  /\ output_path' = debug_file
                   /\ saved' = JsonDump(node_link_data(Graph))
                   /\ document' = IF debug_file = SessionPath
                                  THEN JsonDump(node_link_data(Graph))
                                  ELSE document
       ELSE UNCHANGED <<saved, document, output_path>>
    /\ cmd' = "save"
    /\ commands' = commands + 1
    /\ UNCHANGED <<graphVars, nodeVars, selfVars, globals_schema, loopVars,
                   taskVars, runVars, stepVars, HAS_MCP, read_only, agent_runner,
                   session_id, original_session_id, original_session_file,
                   node_id, replay_result>>

DebugNext ==
    \/ LoadSession
    \/ ReplayRefused
    \/ ReplayStart
    \/ ReplayTurn1
    \/ ReplayTurn2
    \/ SaveSession

DebugSpec == DebugInit /\ [][DebugNext]_vars

-----------------------------------------------------------------------------
(* Step Runner payloads: one call of AgentLoop4._execute_step with its      *)
(* step data, its capability payloads and the embedded-code execution       *)

\* A Python string, as a value that can stand where None can.
Text(s) == [kind |-> "str", text |-> s]

\* A dict without keys, as the ** of a dict that is left out.
NoKeys == [k \in {} |-> None]

\* bool(v): None, the empty string and the empty dict are false.
Truthy(v) == v \notin {None, Text(""), EmptyDict, NoKeys}

\* a or b
Or(a, b) == IF Truthy(a) THEN a ELSE b

\* d.get(key, default)
Get(d, key, default) == IF key \in DOMAIN d THEN d[key] ELSE default

\* {**a, **b}: the keys of both, b's value where both have the key.
Overlay(a, b) == b @@ a

\* The capabilities a step may name: the formatting one and another.
AgentTypes == {"FormatterAgent", "CoderAgent"}

\* The step data of the executed step: a description, and possibly an
\* agent_prompt attribute that is null, empty or an instruction.
StepDataChoices ==
    {[agent |-> a, description |-> Text("describe")] : a \in AgentTypes}
    \cup {[agent |-> a, description |-> Text("describe"), agent_prompt |-> o] :
             a \in AgentTypes, o \in {None, Text(""), Text("override")}}

\* The reads lists of the executed step.
ReadsChoices == {<< >>, <<"x">>, <<"x", "y">>}

\* The values earlier steps left in the namespace.
NamespaceValues == {[by |-> "T1", turn |-> 1], [by |-> "T3", turn |-> 2]}

\* The namespaces the step may be executed in.
Namespaces == UNION {[K -> NamespaceValues] : K \in SUBSET Keys}

\* The graph attributes the formatting capability is given.
original_query == Text("query")
session_context ==
    [session_id |-> session_id, created_at |-> Text("2025-01-01T10:15:00"),
     file_manifest |-> << >>]

\* A dict with the key k holding one of vals, or without the key.
OptionalKey(k, vals) == {NoKeys} \cup {[x \in {k} |-> v] : v \in vals}

\* The first outputs of the executed step: with or without call_self, a
\* next_instruction (null, empty or a text), an iteration_context (empty or
\* not) and embedded code.
StepOutputs(s) ==
    {Output(s, 1, cs, {}) @@ ni @@ ic @@ code :
        cs \in BOOLEAN,
        ni \in OptionalKey("next_instruction",
                           {None, Text(""), Text("refine")}),
        ic \in OptionalKey("iteration_context", {EmptyDict, [round |-> 1]}),
        code \in OptionalKey("code", {Text("print(1)")})}

\* What the first invocation of the executed step may produce.
StepOutcomes(s) ==
    {Raised("boom"), Failure("agent_error")}
    \cup {Success(o) : o \in StepOutputs(s)}

\* context._has_executable_code(output)
has_executable_code(out) == "code" \in DOMAIN out

\* What context._auto_execute_code may return: a status, and possibly a
\* result dict that holds a key the step reads and a key of its own.
ExecutionResults ==
    {[status |-> st] : st \in {"success", "error"}}
    \cup {[status |-> st,
           result |-> [k \in {"x", "code_result"} |-> [by |-> "code", turn |-> 1]]] :
             st \in {"success", "error"}}

\* inputs after the embedded code has been executed.
inputs_after_execution(ins, er) ==
    IF Get(er, "status", "") = "success"
    THEN Overlay(ins, Get(er, "result", NoKeys))
    ELSE ins

\* (mutant) a payload builder that gives every capability what the
\* formatting capability gets.
build_agent_input_AllGlobals(ins, all_globals, instruction, previous_output, iteration_context) ==
    [step_id |-> step_id,
     agent_prompt |->
         Or(instruction,
            Get(step_data, "agent_prompt", step_data.description)),
     reads |-> reads[step_id],
     writes |-> writes[step_id],
     inputs |-> ins]
    @@ [all_globals_schema |-> all_globals,
        original_query |-> original_query,
        session_context |-> session_context]
    @@ (IF Truthy(previous_output)
        THEN [previous_output |-> previous_output] ELSE NoKeys)
    @@ (IF Truthy(iteration_context)
        THEN [iteration_context |-> iteration_context] ELSE NoKeys)

\* build_agent_input(instruction, previous_output, iteration_context), with
\* the inputs and the namespace it finds when it is called.
build_agent_input(ins, all_globals, instruction, previous_output, iteration_context) ==
    [step_id |-> step_id,
     agent_prompt |->
         Or(instruction,
            Get(step_data, "agent_prompt", step_data.description)),
     reads |-> reads[step_id],
     writes |-> writes[step_id],
     inputs |-> ins]
    @@ (IF step_data.agent = "FormatterAgent"
        THEN [all_globals_schema |-> all_globals,
              original_query |-> original_query,
              session_context |-> session_context]
        ELSE NoKeys)
    @@ (IF Truthy(previous_output)
        THEN [previous_output |-> previous_output] ELSE NoKeys)
    @@ (IF Truthy(iteration_context)
        THEN [iteration_context |-> iteration_context] ELSE NoKeys)

\* The payload of the second invocation, built from the first output with
\* the inputs as they are then.
second_input(ins, out) ==
    build_agent_input(ins, globals_schema,
                      Get(out, "next_instruction", Text("Continue the task")),
                      out,
                      Get(out, "iteration_context", EmptyDict))

\* One step of a batch is entered: it is running, the namespace holds what
\* earlier batches merged.
StepInit ==
    /\ nodes = PlanOrder
    /\ step_id = "T2"
    /\ step_data \in StepDataChoices
    /\ edges = RootEdges({})
    /\ \E rs \in ReadsChoices :
         reads = [s \in Steps |-> IF s = step_id THEN rs ELSE << >>]
    /\ writes = [s \in Steps |-> << >>]
    /\ status = [n \in Nodes |-> IF n = step_id THEN "running" ELSE "pending"]
    /\ output = [n \in Nodes |-> None]
    /\ error = [n \in Nodes |-> NoError]
    /\ iterations = [n \in Nodes |-> << >>]
    /\ call_self_used = [n \in Nodes |-> FALSE]
    /\ final_iteration_output = [n \in Nodes |-> None]
    /\ globals_schema \in Namespaces
    /\ pc = "enter"
    /\ iteration = 1
    /\ ready_steps = <<step_id>>
    /\ task = [s \in Steps |-> "none"]
    /\ first = [s \in Steps |-> None]
    /\ second = [s \in Steps |-> None]
    /\ results = [s \in Steps |-> None]
    /\ idx = 1
    /\ calls = [s \in Steps |-> 0]
    /\ inputs = [s \in Steps |-> NoInputs]
    /\ agent_input = None
    /\ second_agent_input = None
    /\ execution_result = None
    /\ plan_result = None
    /\ constructed = TRUE
    /\ run_result = None
    /\ NoDebugger

\* _execute_step up to its first await: the inputs are resolved, the first
\* payload is built and the capability is invoked.
StepEnter ==
    /\ pc = "enter"
    /\ inputs' = [inputs EXCEPT ![step_id] = get_inputs(reads[step_id])]
    /\ agent_input' =
          build_agent_input(get_inputs(reads[step_id]), globals_schema,
                            None, None, None)
    /\ task' = [task EXCEPT ![step_id] = "turn1"]
    /\ pc' = "turn1"
    /\ UNCHANGED <<graphVars, nodeVars, selfVars, globals_schema, iteration,
                   ready_steps, idx, first, second, results, calls, runVars,
                   dbgVars, step_id, step_data, second_agent_input,
                   execution_result>>

\* The first invocation returns (or raises).  On failure or without
\* call_self the call returns; with call_self and embedded code the code is
\* executed; with call_self alone the second payload is built and the
\* capability is invoked again.
StepTurn1 ==
    /\ pc = "turn1"
    /\ \E r \in StepOutcomes(step_id) :
         /\ calls' = [calls EXCEPT ![step_id] = @ + 1]
         /\ first' = [first EXCEPT ![step_id] =
                         IF r.kind = "result" THEN r ELSE @]
         /\ IF r.kind = "result" /\ r.success /\ r.output.call_self
            THEN /\ UNCHANGED <<results, task>>
                 /\ IF has_executable_code(r.output)
                    THEN pc' = "execute" /\ UNCHANGED second_agent_input
                    ELSE /\ pc' = "turn2"
                         /\ second_agent_input' =
                               second_input(inputs[step_id], r.output)
            ELSE /\ results' = [results EXCEPT ![step_id] = r]
                 /\ task' = [task EXCEPT ![step_id] = "settled"]
                 /\ pc' = "returned"
                 /\ UNCHANGED second_agent_input
    /\ UNCHANGED <<graphVars, nodeVars, selfVars, globals_schema, iteration,
                   ready_steps, idx, second, inputs, runVars, dbgVars,
                   step_id, step_data, agent_input, execution_result>>

\* The execution of the embedded code returns (or raises): on success its
\* result is laid over the inputs; the second payload is built and the
\* capability is invoked again.
StepExecuted ==
    /\ pc = "execute"
    /\ \E er \in ExecutionResults \cup {Raised("boom")} :
         IF er \in ExecutionResults
         THEN /\ execution_result' = er
              /\ inputs' = [inputs EXCEPT
                               ![step_id] = inputs_after_execution(@, er)]
              /\ second_agent_input' =
                    second_input(inputs_after_execution(inputs[step_id], er),
                                 first[step_id].output)
              /\ pc' = "turn2"
              /\ UNCHANGED <<results, task>>
         ELSE /\ results' = [results EXCEPT ![step_id] = er]
              /\ task' = [task EXCEPT ![step_id] = "settled"]
              /\ pc' = "returned"
              /\ UNCHANGED <<execution_result, inputs, second_agent_input>>
    /\ UNCHANGED <<graphVars, nodeVars, selfVars, globals_schema, iteration,
                   ready_steps, idx, first, second, calls, runVars, dbgVars,
                   step_id, step_data, agent_input>>

\* The second invocation returns (or raises): both turns are stored on the
\* node and the call returns the final result.
StepTurn2 ==
    /\ pc = "turn2"
    /\ \E r2 \in Outcomes(step_id, 2) :
         /\ calls' = [calls EXCEPT ![step_id] = @ + 1]
         /\ second' = [second EXCEPT ![step_id] = r2]
         /\ IF r2.kind = "exception"
            THEN /\ results' = [results EXCEPT ![step_id] = r2]
                 /\ UNCHANGED selfVars
            ELSE /\ iterations' =
                      [iterations EXCEPT
                          ![step_id] =
                              iterations_data(first[step_id].output, r2)]
                 /\ call_self_used' =
                      [call_self_used EXCEPT ![step_id] = TRUE]
                 /\ final_iteration_output' =
                      [final_iteration_output EXCEPT
                          ![step_id] = final_result(first[step_id], r2).output]
                 /\ results' =
                      [results EXCEPT
                          ![step_id] = final_result(first[step_id], r2)]
    /\ task' = [task EXCEPT ![step_id] = "settled"]
    /\ pc' = "returned"
    /\ UNCHANGED <<graphVars, nodeVars, globals_schema, iteration,
                   ready_steps, idx, first, inputs, runVars, dbgVars,
                   stepVars>>

StepNext ==
    \/ StepEnter
    \/ StepTurn1
    \/ StepExecuted
    \/ StepTurn2

StepSpec == StepInit /\ [][StepNext]_vars

-----------------------------------------------------------------------------
(* A plan whose dependency chain is longer than the iteration budget        *)

\* One step more than the budget has iterations.
ChainLength == max_iterations + 1

\* The step ids T1, T2, ... of the chain, in node order.
ChainOrder == [i \in 1..ChainLength |-> "T" \o ToString(i)]

\* Each step of the chain depends on the step before it.
ChainEdges ==
    {<<ChainOrder[i], ChainOrder[i + 1]>> : i \in 1..(ChainLength - 1)}

\* The plans over the chain's steps: the chain, and the chain closed to a
\* cycle by an edge from its last step to its first.
ChainPlans ==
    {E \cup RootEdges(E) :
        E \in {ChainEdges,
               ChainEdges \cup {<<ChainOrder[ChainLength], ChainOrder[1]>>}}}

\* What an invocation of a capability that asks for no second turn may
\* produce: an output with the declared writes, or a failure.
PlainOutcomes(s) ==
    {Failure("agent_error"), Success(Output(s, 1, FALSE, Range(writes[s])))}

\* State after the Execution Context is built from a plan over the chain's
\* steps.
ChainInit ==
    /\ nodes = ChainOrder
    /\ edges \in ChainPlans
    /\ \E d \in Declarations : reads = d.reads /\ writes = d.writes
    /\ \E r \in {"pending", "completed"} :
         status = [n \in Nodes |-> IF n = ROOT THEN r ELSE "pending"]
    /\ output = [n \in Nodes |-> None]
    /\ error = [n \in Nodes |-> NoError]
    /\ iterations = [n \in Nodes |-> << >>]
    /\ call_self_used = [n \in Nodes |-> FALSE]
    /\ final_iteration_output = [n \in Nodes |-> None]
    /\ globals_schema = [k \in {} |-> None]
    /\ pc = "loop"
    /\ iteration = 0
    /\ ready_steps = << >>
    /\ task = [s \in Steps |-> "none"]
    /\ first = [s \in Steps |-> None]
    /\ second = [s \in Steps |-> None]
    /\ results = [s \in Steps |-> None]
    /\ idx = 1
    /\ calls = [s \in Steps |-> 0]
    /\ inputs = [s \in Steps |-> NoInputs]
    /\ plan_result =
          Success(PlanOutput([edges |-> edges, reads |-> reads,
                              writes |-> writes]))
    /\ constructed = TRUE
    /\ run_result = None
    /\ NoDebugger
    /\ NoStepRun

\* The only invocation of step s returns: the task settles with its result.
TaskReturns(s) ==
    /\ pc = "gather"
    /\ task[s] = "turn1"
    /\ \E r \in PlainOutcomes(s) :
         /\ calls' = [calls EXCEPT ![s] = @ + 1]
         /\ first' = [first EXCEPT ![s] = r]
         /\ task' = [task EXCEPT ![s] = "settled"]
         /\ results' = [results EXCEPT ![s] = r]
    /\ UNCHANGED <<graphVars, runVars, dbgVars, stepVars, nodeVars, selfVars,
                   globals_schema, loopVars, second, inputs>>

ChainNext ==
    \/ LoopExit
    \/ IdleWait
    \/ WakeUp
    \/ BreakOnFailure
    \/ Dispatch
    \/ \E s \in Steps : TaskReturns(s)
    \/ Gather
    \/ ProcessResult

ChainSpec == ChainInit /\ [][ChainNext]_vars

\* The event loop keeps running whatever can run: a task whose invocation has
\* returned is resumed, and the scheduler loop is resumed after its gather or
\* its sleep.
FairSpec == Spec /\ WF_vars(Next)

-----------------------------------------------------------------------------
(* Auxiliary notions for the properties                                     *)

\* The steps of the running batch: those a task exists for.
Dispatched == {s \in Steps : task[s] # "none"}

\* The tasks whose invocation has not resolved yet.
InFlight == {s \in Steps : task[s] \in {"turn1", "turn2"}}

Successors(S) == {t \in Nodes : \E p \in S : <<p, t>> \in edges}

RECURSIVE Closure(_)
Closure(S) ==
    LET N == S \cup Successors(S) IN IF N = S THEN S ELSE Closure(N)

\* The direct and transitive dependents of node n.
Descendants(n) == Closure(Successors({n}))

\* Step r reads a key that step w writes.
ReadsFrom(r, w) == Range(reads[r]) \cap Range(writes[w]) # {}

\* The plan has a dependency path from every writer of a key to every other
\* step that reads the key.
EdgesCoverDataflow ==
    \A r \in Steps, w \in Steps :
        (r # w /\ ReadsFrom(r, w)) => r \in Descendants(w)

\* A batch has been dispatched and all its results have been processed.
BatchProcessed == pc = "loop" /\ ready_steps # << >>

-----------------------------------------------------------------------------
(* Properties                                                               *)

\* C1: In the scheduler loop a step's capability is invoked only if, at the
\* moment its batch was formed, the step's status was pending and every
\* direct predecessor other than ROOT had status completed: a task is
\* created only for such a step, and only a step with a task is invoked
\* (its predecessors still being completed then).
C1_InvokedOnlyIfReadyAtBatchFormation ==
    [][ /\ \A s \in Steps :
             (pc = "loop" /\ task'[s] = "turn1") =>
                 /\ status[s] = "pending"
                 /\ \A p \in Predecessors(s) \ {ROOT} : status[p] = "completed"
        /\ \A s \in Steps :
             calls'[s] # calls[s] =>
                 /\ s \in InFlight
                 /\ \A p \in Predecessors(s) \ {ROOT} : status[p] = "completed"
      ]_vars

\* C1 witness: a step that depends on another step has been invoked.
C1_Witness ==
    \E s \in Steps : calls[s] > 0 /\ Predecessors(s) \ {ROOT, s} # {}

\* C2: In every reachable graph state get_ready_steps() returns no step whose
\* status is not pending and no step that has a non-ROOT direct predecessor
\* whose status is not completed.
C2_ReadyStepsArePendingWithCompletedPredecessors ==
    \A i \in 1..Len(get_ready_steps) :
        /\ status[get_ready_steps[i]] = "pending"
        /\ \A p \in Nodes \ {ROOT} :
               <<p, get_ready_steps[i]>> \in edges => status[p] = "completed"

\* C2 witness: a query that returns a step which depends on another step,
\* while leaving out a pending step and a step that is not pending.
C2_Witness ==
    /\ pc = "loop"
    /\ \E s \in Range(get_ready_steps), t \in Steps, u \in Steps :
          /\ Predecessors(s) \ {ROOT} # {}
          /\ status[t] = "pending" /\ t \notin Range(get_ready_steps)
          /\ status[u] # "pending"

\* C3 as stated: no dispatched batch contains two steps such that a key in
\* one step's reads appears in the other step's writes, for every plan graph.
C3_NoReaderWriterPairInAnyBatch ==
    \A r \in Dispatched, w \in Dispatched : r # w => ~ReadsFrom(r, w)

\* C3 amended: for every plan graph that has a dependency path from each
\* writer of a key to each other step reading that key, no dispatched batch
\* contains two steps such that one reads a key the other writes.
C3_NoReaderWriterPairInBatchOfCoveredPlan ==
    EdgesCoverDataflow =>
        \A r \in Dispatched, w \in Dispatched : r # w => ~ReadsFrom(r, w)

\* C3 witness: a batch of two steps in flight in a plan that has a reader /
\* writer pair and covers all of them by dependency paths.
C3_Witness ==
    /\ EdgesCoverDataflow
    /\ \E r \in Steps, w \in Steps : r # w /\ ReadsFrom(r, w)
    /\ Cardinality(InFlight) >= 2

\* C4: While any step of a batch is still in flight globals_schema is not
\* modified: the namespace changes only in the result loop, after every
\* invocation of the batch has settled; and when the loop next queries
\* get_ready_steps() every merge of the batch has been applied: each key a
\* successful step of the batch wrote holds the value of the last step of the
\* batch, in processing order, that wrote it.
C4_MergesOnlyAfterBatchSettledAndBeforeNextQuery ==
    /\ [][globals_schema' # globals_schema =>
             pc = "process" /\ InFlight = {} /\ InFlight' = {}]_vars
    /\ [](BatchProcessed =>
            \A i \in 1..Len(ready_steps) :
               LET s == ready_steps[i]
                   r == results[s]
               IN  (r.kind = "result" /\ r.success) =>
                    \A k \in Range(writes[s]) \cap r.output.fields :
                       /\ k \in DOMAIN globals_schema
                       /\ \/ globals_schema[k] = FieldValue(r.output, k)
                          \/ \E j \in (i + 1)..Len(ready_steps) :
                                LET r2 == results[ready_steps[j]]
                                IN  /\ r2.kind = "result" /\ r2.success
                                    /\ k \in Range(writes[ready_steps[j]])
                                                \cap r2.output.fields
                                    /\ globals_schema[k] =
                                           FieldValue(r2.output, k))

\* C4 witness: a batch of two steps has been processed and the namespace
\* holds a key written by one of them.
C4_Witness ==
    /\ BatchProcessed
    /\ Len(ready_steps) >= 2
    /\ \E s \in Range(ready_steps) :
          /\ results[s].kind = "result" /\ results[s].success
          /\ \E k \in DOMAIN globals_schema :
                globals_schema[k] = FieldValue(results[s].output, k)

\* C5: Whenever the scheduler loop is about to query get_ready_steps(), and
\* when it has terminated, no node has status running; and the loop never
\* abandons a batch (it is never left by an exception of the gather).
C5_NoRunningNodeAtQueryOrExit ==
    /\ pc \in {"loop", "sleep", "done"} =>
          \A n \in Nodes : status[n] # "running"
    /\ pc # "raised"

\* C5 witness: the loop is back at its head after a batch of two steps, one
\* of which raised.
C5_Witness ==
    /\ BatchProcessed
    /\ Len(ready_steps) >= 2
    /\ \E s \in Range(ready_steps) : results[s].kind = "exception"

\* C6: If the invocation of one step in a batch raises, the scheduler does
\* not abort: once the batch is processed the raising step is failed and
\* every other step of the batch has resolved and has its own result applied
\* (completed on success, failed otherwise).
C6_ExceptionDoesNotAbortSiblings ==
    /\ pc # "raised"
    /\ (BatchProcessed
        /\ \E s \in Range(ready_steps) : results[s].kind = "exception") =>
           \A t \in Range(ready_steps) :
              /\ task[t] = "settled"
              /\ results[t].kind = "exception" => status[t] = "failed"
              /\ results[t].kind = "result" =>
                    status[t] =
                        IF results[t].success THEN "completed" ELSE "failed"

\* C6 witness: a processed batch in which one step raised and a sibling
\* completed.
C6_Witness ==
    /\ BatchProcessed
    /\ \E s \in Range(ready_steps), t \in Range(ready_steps) :
          /\ results[s].kind = "exception" /\ status[s] = "failed"
          /\ results[t].kind = "result" /\ status[t] = "completed"

\* C7: After a batch has been processed, each step of the batch has status
\* completed with the invocation's output stored if and only if its
\* invocation returned success = true; if it returned success = false or
\* raised, the step has status failed with the error text recorded; and the
\* failure is not raised out of the scheduler.
C7_StatusAndOutputFollowResult ==
    /\ pc # "raised"
    /\ BatchProcessed =>
          \A s \in Range(ready_steps) :
             LET r == results[s]
                 ok == r.kind = "result" /\ r.success
             IN  /\ ok <=> status[s] = "completed"
                 /\ ok => output[s] = r.output
                 /\ ~ok => /\ status[s] = "failed"
                           /\ output[s] = None
                           /\ error[s] =
                                IF r.kind = "exception" THEN r.msg ELSE r.error

\* C7 witness: a processed batch holding a completed step, a step failed by
\* a structured failure and a step failed by an exception.
C7_Witness ==
    /\ BatchProcessed
    /\ \E s \in Range(ready_steps), t \in Range(ready_steps),
          u \in Range(ready_steps) :
          /\ status[s] = "completed" /\ output[s] = results[s].output
          /\ results[t].kind = "result" /\ status[t] = "failed"
          /\ results[u].kind = "exception" /\ status[u] = "failed"

\* C8: mark_failed(step_id, error) changes only the named step: in a step
\* that marks a node failed, the status and output of every other node and
\* the contents of globals_schema are unchanged (and the output of the named
\* step as well).
C8_MarkFailedChangesOnlyItsStep ==
    [][\A s \in Steps :
          (status[s] # "failed" /\ status'[s] = "failed") =>
              /\ \A n \in Nodes \ {s} :
                    status'[n] = status[n] /\ output'[n] = output[n]
              /\ \A n \in Nodes \ {s} : error'[n] = error[n]
              /\ output'[s] = output[s]
              /\ globals_schema' = globals_schema]_vars

\* C8 witness: a step of the batch has been marked failed after a sibling
\* was completed and merged into the namespace; the sibling is still
\* completed, the namespace still holds its key and a dependent of the failed
\* step is still pending.
C8_Witness ==
    /\ DOMAIN globals_schema # {}
    /\ \E s \in Range(ready_steps), t \in Range(ready_steps), d \in Steps :
          /\ status[s] = "failed"
          /\ status[t] = "completed"
          /\ d \in Successors({s}) /\ status[d] = "pending"

\* C9: Once a step has status failed, no step that depends on it directly or
\* transitively appears in get_ready_steps() or is dispatched; every such
\* dependent has status pending (for the rest of the run: failed is never
\* left, see C10), so all_done() is false while such a dependent exists.
C9_DependentsOfFailedStepStayPending ==
    \A f \in Steps, d \in Steps :
        (status[f] = "failed" /\ d \in Descendants(f)) =>
            /\ status[d] = "pending"
            /\ d \notin Range(get_ready_steps)
            /\ d \notin Dispatched
            /\ calls[d] = 0
            /\ ~all_done

\* C9 witness: the loop has ended with a failed step and a pending
\* transitive (not direct) dependent of it.
C9_Witness ==
    /\ pc = "done"
    /\ \E f \in Steps, d \in Steps :
          /\ status[f] = "failed"
          /\ d \in Descendants(f) /\ <<f, d>> \notin edges
          /\ status[d] = "pending"

\* C10: During a scheduler run every node's status changes only along
\* pending -> running -> completed or pending -> running -> failed.
C10_StatusTransitionsMonotonic ==
    [][\A n \in Nodes :
          status'[n] # status[n] =>
              \/ status[n] = "pending" /\ status'[n] = "running"
              \/ status[n] = "running" /\ status'[n] \in {"completed", "failed"}
      ]_vars

\* C10 witness: the run has ended with a completed, a failed and a pending
\* step.
C10_Witness ==
    /\ pc = "done"
    /\ \E a \in Steps, b \in Steps, c \in Steps :
          /\ status[a] = "completed"
          /\ status[b] = "failed"
          /\ status[c] = "pending"

\* The second invocation of step s (of the running batch) returned a result.
SecondTurnReturned(s) == task[s] = "settled" /\ second[s].kind = "result"

\* The second invocation of step s returned success = false.
SecondTurnFailed(s) == SecondTurnReturned(s) /\ ~second[s].success

\* C11: During a run the key set of globals_schema only grows: every key
\* present before a step of the run is present after it (values may be
\* overwritten, keys are never removed).
C11_NamespaceKeysOnlyGrow ==
    [][DOMAIN globals_schema \subseteq DOMAIN globals_schema']_vars

\* C11 witness: the namespace holds two keys, so the first one survived the
\* merge of the second.
C11_Witness == Cardinality(DOMAIN globals_schema) >= 2

\* C12: For a step whose first successful output sets call_self, after
\* _execute_step returns the step's iterations list has exactly two entries,
\* and the returned result is the second turn's result when the second turn
\* succeeded and the first turn's result otherwise.
C12_TwoIterationsAndFinalResult ==
    \A s \in Steps :
        SecondTurnReturned(s) =>
            /\ first[s].output.call_self
            /\ Len(iterations[s]) = 2
            /\ results[s] = IF second[s].success THEN second[s] ELSE first[s]

\* C12 witness: two call_self steps of one batch have returned, one after a
\* successful and one after a failed second turn.
C12_Witness ==
    \E s \in Steps, t \in Steps :
        /\ SecondTurnReturned(s) /\ second[s].success
        /\ SecondTurnFailed(t)

\* C13 as stated: when the second self-continuation turn fails, iterations
\* holds an entry with turn 1's output and an entry that records the failed
\* second attempt, not an empty placeholder.
C13_FailedSecondTurnRecorded ==
    \A s \in Steps :
        SecondTurnFailed(s) =>
            /\ Len(iterations[s]) = 2
            /\ iterations[s][1] = [iteration |-> 1, output |-> first[s].output]
            /\ iterations[s][2] # None

\* C14: For a step whose first output sets call_self and whose second turn
\* fails, final_iteration_output equals the first turn's output and
\* call_self_used is true, and once the scheduler has processed the step it
\* is completed with the first turn's output.
C14_FailedSecondTurnKeepsFirstOutput ==
    \A s \in Steps :
        SecondTurnFailed(s) =>
            /\ final_iteration_output[s] = first[s].output
            /\ call_self_used[s]
            /\ status[s] \in {"running", "completed"}
            /\ status[s] = "completed" => output[s] = first[s].output

\* C14 witness: a step whose second turn failed has been marked completed.
C14_Witness ==
    \E s \in Steps : SecondTurnFailed(s) /\ status[s] = "completed"

\* Some node has status failed.
AnyFailed == \E n \in Nodes : status[n] = "failed"

\* Every step (ROOT left aside) is completed or failed.
AllResolved == \A s \in Steps : status[s] \in {"completed", "failed"}

\* The loop is at its head with budget left, work left and nothing ready.
Blocked ==
    /\ pc = "loop"
    /\ ~AllResolved
    /\ iteration < max_iterations
    /\ get_ready_steps = << >>

\* No dependency cycle.
Acyclic == \A n \in Nodes : n \notin Descendants(n)

\* C15: If some step never becomes ready and no step has failed, the loop
\* idle-waits and retries (one iteration per retry, node state and namespace
\* untouched), performs exactly max_iterations iterations, then halts without
\* raising, with all_done() false.
C15_BlockedRunUsesWholeBudget ==
    /\ [][(Blocked /\ ~AnyFailed) =>
             /\ pc' = "sleep"
             /\ iteration' = iteration + 1
             /\ UNCHANGED <<nodeVars, selfVars, globals_schema, calls>>]_vars
    /\ [][pc = "sleep" =>
             /\ pc' = "loop"
             /\ UNCHANGED <<nodeVars, selfVars, globals_schema, calls,
                            iteration>>]_vars
    /\ []((pc = "done" /\ ~AllResolved /\ ~AnyFailed) =>
             (iteration = max_iterations /\ ~all_done))
    /\ [](pc # "raised")

\* C15 witness: the loop has ended after max_iterations iterations with a
\* pending step and no failed node.
C15_Witness ==
    /\ pc = "done"
    /\ iteration = max_iterations
    /\ ~AnyFailed
    /\ \E s \in Steps : status[s] = "pending"

\* C16: If in some iteration get_ready_steps() returns no step and at least
\* one node has status failed, the loop exits in that same iteration without
\* idle-waiting and without dispatching anything, and no node or namespace
\* state changes afterwards.
C16_BlockedWithFailureExitsAtOnce ==
    /\ [][(Blocked /\ AnyFailed) =>
             /\ pc' = "done"
             /\ UNCHANGED <<nodeVars, selfVars, globals_schema, taskVars>>]_vars
    /\ [][pc = "done" => UNCHANGED vars]_vars

\* C16 witness: the loop has ended before its budget with a failed step and
\* a pending one.
C16_Witness ==
    /\ pc = "done"
    /\ iteration < max_iterations
    /\ AnyFailed
    /\ \E s \in Steps : status[s] = "pending"

\* C17: When the scheduler loop exits, all_done() is true with zero failed
\* nodes, or some node has status failed, or the iteration budget is
\* exhausted: it never exits while a step is still pending, no node has
\* failed and iterations remain.
C17_ExitIsOneOfThreeTerminalStates ==
    pc = "done" =>
        \/ AllResolved /\ ~AnyFailed
        \/ AnyFailed
        \/ iteration >= max_iterations

\* C17 witness: the loop has ended before its budget with every step
\* completed.
C17_Witness ==
    /\ pc = "done"
    /\ iteration < max_iterations
    /\ \A s \in Steps : status[s] = "completed"

\* C18: For an acyclic plan in which every capability invocation returns
\* success (so that no node fails) and whose longest dependency chain does
\* not exceed the iteration budget, the scheduler loop eventually terminates
\* with every step completed.
C18_AcyclicAllSuccessCompletes ==
    <>(\/ ~Acyclic
       \/ AnyFailed
       \/ pc = "done" /\ \A s \in Steps : status[s] = "completed")

\* C18 witness: the loop has ended with every step of a three-step chain
\* completed.
C18_Witness ==
    /\ pc = "done"
    /\ Acyclic
    /\ iteration = Cardinality(Steps)
    /\ \A s \in Steps : status[s] = "completed"

\* C20: all_done() is true exactly when every node other than ROOT has
\* status completed or failed; ROOT's own status does not affect the result.
C20_AllDoneIffEveryStepResolved ==
    all_done <=> \A s \in Steps : status[s] \in {"completed", "failed"}

\* C20 witness: all_done() is true while ROOT is pending, and the loop has
\* ended on it.
C20_Witness ==
    /\ pc = "done"
    /\ all_done
    /\ status[ROOT] = "pending"
    /\ iteration < max_iterations

\* C21: mark_done(step_id, output) sets the step's status to completed,
\* stores the output and puts every declared write present in the output
\* into globals_schema, so that get_inputs on that key returns it and a
\* pending step whose predecessors are now all completed is ready; a
\* declared write absent from the output is not fatal: the step is completed
\* all the same and that key is left as it was.
C21_MarkDoneCompletesStoresAndMerges ==
    [][(/\ pc = "process"
        /\ results[ready_steps[idx]].kind = "result"
        /\ results[ready_steps[idx]].success) =>
          LET s == ready_steps[idx]
              out == results[ready_steps[idx]].output
          IN  /\ status'[s] = "completed"
              /\ output'[s] = out
              /\ \A k \in Keys :
                   IF k \in Range(writes[s]) /\ k \in out.fields
                   THEN /\ k \in DOMAIN globals_schema'
                        /\ globals_schema'[k] = FieldValue(out, k)
                        /\ get_inputs(<<k>>)' = [j \in {k} |-> FieldValue(out, k)]
                   ELSE /\ k \in DOMAIN globals_schema' <=>
                               k \in DOMAIN globals_schema
                        /\ k \in DOMAIN globals_schema =>
                               globals_schema'[k] = globals_schema[k]
              /\ \A t \in Steps :
                   (/\ status'[t] = "pending"
                    /\ \A p \in Predecessors(t) \ {ROOT} :
                           status'[p] = "completed")
                   => t \in Range(get_ready_steps')
      ]_vars

\* C21 witness: one step completed with its write in the namespace, another
\* completed although its declared write was absent from its output, and a
\* dependent of a completed step ready.
C21_Witness ==
    /\ pc = "loop"
    /\ \E s \in Steps, t \in Steps, u \in Steps :
          /\ status[s] = "completed"
          /\ \E k \in Range(writes[s]) :
                k \in DOMAIN globals_schema
                /\ globals_schema[k] = FieldValue(output[s], k)
                /\ get_inputs(<<k>>)[k] = FieldValue(output[s], k)
          /\ status[t] = "completed"
          /\ \E k \in Range(writes[t]) :
                k \notin output[t].fields /\ k \notin DOMAIN globals_schema
          /\ u \in Range(get_ready_steps)
          /\ Predecessors(u) \ {ROOT} # {}

\* C22: A ready step is dispatched even when some of its declared reads are
\* absent from globals_schema, and the inputs of its first-turn payload are
\* exactly the declared reads present in the namespace at dispatch time,
\* missing keys omitted.
C22_DispatchedWithPartialInputs ==
    [][(/\ pc = "loop"
        /\ iteration < max_iterations
        /\ \E s \in Steps :
              /\ status[s] = "pending"
              /\ \A p \in Predecessors(s) \ {ROOT} : status[p] = "completed") =>
          /\ pc' = "gather"
          /\ \A s \in Steps :
               (/\ status[s] = "pending"
                /\ \A p \in Predecessors(s) \ {ROOT} : status[p] = "completed")
               => /\ task'[s] = "turn1"
                  /\ DOMAIN inputs'[s] =
                        Range(reads[s]) \cap DOMAIN globals_schema
                  /\ \A k \in DOMAIN inputs'[s] :
                        inputs'[s][k] = globals_schema[k]
      ]_vars

\* C22 witness: a task is at its first invocation with one declared read in
\* its inputs and another declared read missing.
C22_Witness ==
    \E s \in Steps :
        /\ task[s] = "turn1"
        /\ DOMAIN inputs[s] # {}
        /\ DOMAIN inputs[s] # Range(reads[s])

\* C26: If the first capability invocation of a step returns success = false,
\* _execute_step returns exactly that failure result, makes no second
\* invocation, and leaves the step's iterations, call_self_used and
\* final_iteration_output untouched.
C26_FirstTurnFailurePropagatedUnchanged ==
    \A s \in Steps :
        (task[s] = "settled" /\ first[s].kind = "result" /\ ~first[s].success)
        => /\ results[s] = first[s]
           /\ calls[s] = 1
           /\ second[s] = None
           /\ iterations[s] = << >>
           /\ ~call_self_used[s]
           /\ final_iteration_output[s] = None

\* C26 witness: a task has settled with the failure its first invocation
\* returned.
C26_Witness ==
    \E s \in Steps :
        /\ task[s] = "settled"
        /\ first[s].kind = "result"
        /\ ~first[s].success
        /\ results[s] = first[s]

\* C24: If the planner returns success = false, or an output without a
\* plan_graph key, AgentLoop4.run raises before any Execution Context is
\* constructed and before any step is marked running or any step capability
\* is invoked.
C24_PlanningFailureIsFatalBeforeConstruction ==
    (/\ plan_result.kind = "result"
     /\ plan_result.success => "plan_graph" \notin DOMAIN plan_result.output)
    => /\ pc = "fatal"
       /\ run_result.kind = "exception"
       /\ ~constructed
       /\ \A s \in Steps :
            status[s] # "running" /\ task[s] = "none" /\ calls[s] = 0

\* C24 witness: the planner returned success with an output that has no
\* plan_graph key, and run has raised.
C24_Witness ==
    /\ plan_result.kind = "result"
    /\ plan_result.success
    /\ "plan_graph" \notin DOMAIN plan_result.output
    /\ run_result.kind = "exception"

\* C25: Once planning has succeeded and the Execution Context is constructed,
\* AgentLoop4.run returns that context object in every terminal state of the
\* scheduler loop (completed, halted with failed steps, budget exhausted);
\* step failures and budget exhaustion never make run raise.
C25_RunReturnsContextInEveryTerminalState ==
    /\ [](constructed => (run_result.kind # "exception" /\ pc # "raised"))
    /\ [][pc = "done" =>
            /\ pc' = "returned"
            /\ run_result' = ContextObject
            /\ UNCHANGED <<graphVars, nodeVars, selfVars, globals_schema>>]_vars
    /\ [](run_result = ContextObject => (constructed /\ pc = "returned"))

\* C25 witness: run has returned the context of a run that ended with a
\* failed step and a pending one.
C25_Witness ==
    /\ run_result = ContextObject
    /\ AnyFailed
    /\ \E s \in Steps : status[s] = "pending"

\* The debugger has just taken the command c.
Issued(c) == pc = "idle" /\ commands' = commands + 1 /\ cmd' = c

\* The replay in progress returns to the command loop in this step.
ReplayEnds == pc \in {"replay1", "replay2"} /\ pc' = "idle"

C27_LoadedSessionIdDiffersFromPersisted ==
    /\ [][Issued("load") =>
            \E doc \in SessionFiles :
                /\ original_session_id' = doc.graph.session_id
                /\ session_id' # doc.graph.session_id
                /\ Len(session_id') > Len(doc.graph.session_id)
                /\ SubSeq(session_id', 1, Len(doc.graph.session_id)) =
                       doc.graph.session_id]_vars
    /\ [](constructed => session_id # original_session_id)

\* C27 witness: the original session file has been loaded and the context
\* carries a derived id.
C27_Witness ==
    /\ constructed
    /\ original_session_id = document.graph.session_id
    /\ session_id # << >>
    /\ session_id # original_session_id

\* C28 as stated: after a replay of a node whose capability invocation
\* succeeds, the node's status is completed and its stored output is the
\* newly produced output (not null).
C28_ReplayRecordsNewOutput ==
    [][(/\ ReplayEnds
        /\ first'[node_id].kind = "result"
        /\ first'[node_id].success
        /\ second'[node_id].kind # "exception") =>
          /\ status'[node_id] = "completed"
          /\ output'[node_id] # None
          /\ output'[node_id] = replay_result']_vars

\* C29 as stated: for the same node, inputs and capability responses the
\* output replay_node returns equals the result _execute_step produces (the
\* second turn's output when the first output sets call_self and the second
\* turn succeeds, else the first turn's), and iterations, call_self_used and
\* final_iteration_output are set the same way.
C29_ReplayFollowsStepRunnerProtocol ==
    [][(/\ ReplayEnds
        /\ first'[node_id].kind = "result"
        /\ first'[node_id].success
        /\ second'[node_id].kind # "exception") =>
          IF first'[node_id].output.call_self
          THEN /\ replay_result' =
                     final_result(first'[node_id], second'[node_id]).output
               /\ iterations'[node_id] =
                     iterations_data(first'[node_id].output, second'[node_id])
               /\ call_self_used'[node_id]
               /\ final_iteration_output'[node_id] =
                     final_result(first'[node_id], second'[node_id]).output
          ELSE /\ replay_result' = first'[node_id].output
               /\ UNCHANGED selfVars]_vars

\* C30 as stated: when no agent runner was created, replay_node returns an
\* empty result without error and leaves the node's status and output and
\* the namespace unchanged.
C30_ReplayUnavailableWithoutAgentRunner ==
    [][(Issued("replay") /\ ~agent_runner) =>
          /\ pc' = "idle"
          /\ replay_result' = EmptyDict
          /\ UNCHANGED <<status, output, globals_schema>>]_vars

\* C39: A replay whose capability invocation returns success = false leaves
\* the node with status pending and output null: the node is not marked
\* failed (no error text is recorded either), the output stored before the
\* replay is not restored, and replay_node returns the empty dict.
C39_FailedReplayLeavesNodePendingAndEmpty ==
    [][(/\ ReplayEnds
        /\ first'[node_id].kind = "result"
        /\ ~first'[node_id].success) =>
          /\ status'[node_id] = "pending"
          /\ output'[node_id] = None
          /\ error'[node_id] = error[node_id]
          /\ replay_result' = EmptyDict
          /\ UNCHANGED globals_schema]_vars

\* C39 witness: the replay of a node that the loaded session holds as
\* completed with an output has ended on a failure result; the node is
\* pending and its output is gone.
C39_Witness ==
    /\ pc = "idle"
    /\ cmd = "replay"
    /\ first[node_id].kind = "result"
    /\ ~first[node_id].success
    /\ original_session_id = document.graph.session_id
    /\ NodeOf(document, node_id).status = "completed"
    /\ NodeOf(document, node_id).output # [j |-> "null"]
    /\ status[node_id] = "pending"
    /\ output[node_id] = None

\* C31 as stated: the debugger's save never writes to the file the session
\* was loaded from: for every save, with the default path or with a path the
\* operator gives, the file written is distinct from the original session
\* file, which is left unmodified.
C31_SaveNeverWritesOriginalFile ==
    [][(Issued("save") /\ constructed) =>
          /\ output_path' # original_session_file
          /\ original_session_file = SessionPath => document' = document]_vars

\* The first invocation of step s (of the running batch) returned an output
\* that carries call_self.
FirstTurnAsksForSecond(s) ==
    IF first[s].kind = "result"
    THEN IF first[s].success THEN first[s].output.call_self ELSE FALSE
    ELSE FALSE

ReadyNow(s) ==
    /\ status[s] = "pending"
    /\ \A p \in Steps : <<p, s>> \in edges => status[p] = "completed"

\* C33: A failed step does not stop the run while other work is ready: with
\* budget left the loop is left with unresolved steps only in a pass where
\* no step is ready; while a node is failed, a pass that finds ready steps
\* dispatches all of them; so when the run has ended before its budget every
\* step still pending has a predecessor that is not completed.
C33_FailureStopsRunOnlyWhenNothingReady ==
    /\ [][(/\ pc = "loop" /\ pc' = "done"
           /\ ~AllResolved /\ iteration < max_iterations) =>
             (AnyFailed /\ \A s \in Steps : ~ReadyNow(s))]_vars
    /\ [][(/\ pc = "loop" /\ iteration < max_iterations /\ AnyFailed
           /\ \E s \in Steps : ReadyNow(s)) =>
             (pc' = "gather" /\ \A s \in Steps :
                                  ReadyNow(s) => task'[s] = "turn1")]_vars
    /\ []((pc = "done" /\ iteration < max_iterations) =>
             \A s \in Steps : ~ReadyNow(s))

\* C33 witness: a step failed in an earlier batch, and a later batch holds a
\* step that depends on another step and is in flight.
C33_Witness ==
    \E f \in Steps, s \in Steps :
        /\ status[f] = "failed"
        /\ f \notin Range(ready_steps)
        /\ s \in Range(ready_steps)
        /\ task[s] = "turn1"
        /\ Predecessors(s) \ {ROOT} # {}

\* C34: _execute_step itself changes no node's status and no entry of
\* globals_schema; the only graph state it writes is the executed step's own
\* iterations, call_self_used and final_iteration_output, and it writes
\* those only when the first output carries call_self.  Status changes and
\* namespace merges happen only in the scheduler loop: statuses when a batch
\* is dispatched or processed, merges after the batch has settled.
C34_StepRunnerWritesOnlyItsIterationFields ==
    /\ [][(pc = "gather" /\ pc' = "gather") =>
            /\ UNCHANGED <<nodeVars, globals_schema>>
            /\ \A n \in Nodes :
                  (\/ iterations'[n] # iterations[n]
                   \/ call_self_used'[n] # call_self_used[n]
                   \/ final_iteration_output'[n] # final_iteration_output[n])
                  => /\ n \in Steps
                     /\ task[n] = "turn2" /\ task'[n] = "settled"
                     /\ first[n].kind = "result"
                     /\ first[n].success
                     /\ first[n].output.call_self]_vars
    /\ [][selfVars' # selfVars => (pc = "gather" /\ pc' = "gather")]_vars
    /\ [][status' # status => (pc \in {"loop", "process"} /\ InFlight = {})]_vars
    /\ [][(globals_schema' # globals_schema \/ output' # output) =>
             (pc = "process" /\ InFlight = {})]_vars

\* C34 witness: a task has returned after two turns with an output that
\* holds a declared write; its step is still running, its output not stored
\* and the namespace still empty, while its iteration fields are set.
C34_Witness ==
    \E s \in Steps :
        /\ pc = "gather"
        /\ SecondTurnReturned(s)
        /\ results[s].success
        /\ results[s].output.fields # {}
        /\ call_self_used[s]
        /\ Len(iterations[s]) = 2
        /\ final_iteration_output[s] = results[s].output
        /\ status[s] = "running"
        /\ output[s] = None
        /\ DOMAIN globals_schema = {}

\* C35 as stated: the first-turn payload's instruction (agent_prompt) is the
\* step's explicit prompt override when one is set, and the step's
\* description in every other case, including a step whose agent_prompt
\* attribute is present but null or empty.
C35_InstructionIsOverrideElseDescription ==
    agent_input # None =>
        agent_input.agent_prompt =
            IF "agent_prompt" \in DOMAIN step_data
            THEN IF step_data.agent_prompt \in {None, Text("")}
                 THEN step_data.description
                 ELSE step_data.agent_prompt
            ELSE step_data.description

\* The embedded code was executed and reported success.
ExecutionSucceeded ==
    IF execution_result = None THEN FALSE
    ELSE execution_result.status = "success"

\* C36 as stated: the second-turn payload uses as instruction the first
\* output's next_instruction ("Continue the task" when the field is absent),
\* carries the first output as previous_output and the first output's
\* iteration_context, keeps the same step id, reads and writes, and its
\* inputs are the turn-one inputs overlaid with the embedded-code execution
\* result when that execution reported success, and exactly the turn-one
\* inputs otherwise.
C36_SecondPayloadFollowsFirstOutput ==
    second_agent_input # None =>
        LET out == first[step_id].output
        IN  /\ second_agent_input.agent_prompt =
                  IF "next_instruction" \in DOMAIN out
                  THEN out.next_instruction
                  ELSE Text("Continue the task")
            /\ second_agent_input.previous_output = out
            /\ ("iteration_context" \in DOMAIN out
                /\ out.iteration_context # EmptyDict) =>
                  second_agent_input.iteration_context = out.iteration_context
            /\ second_agent_input.step_id = agent_input.step_id
            /\ second_agent_input.reads = agent_input.reads
            /\ second_agent_input.writes = agent_input.writes
            /\ second_agent_input.inputs =
                  IF ExecutionSucceeded /\ "result" \in DOMAIN execution_result
                  THEN [k \in DOMAIN agent_input.inputs
                              \cup DOMAIN execution_result.result |->
                          IF k \in DOMAIN execution_result.result
                          THEN execution_result.result[k]
                          ELSE agent_input.inputs[k]]
                  ELSE agent_input.inputs

\* The namespaces g and h hold the same under every key of rs.
AgreeOn(g, h, rs) ==
    \A k \in Range(rs) :
        /\ k \in DOMAIN g <=> k \in DOMAIN h
        /\ k \in DOMAIN g => g[k] = h[k]

\* The declared reads rs found in the namespace g.
InputsIn(g, rs) == [k \in Range(rs) \cap DOMAIN g |-> g[k]]

\* The keys only the formatting capability is given.
FormatterKeys == {"all_globals_schema", "original_query", "session_context"}

\* C37: Only the designated formatting capability (FormatterAgent) receives
\* the entire shared namespace, the original query and session metadata in
\* its payload; for every other capability the first-turn payload depends on
\* the namespace only through the step's declared reads: the payload built
\* in any namespace that agrees with the actual one on those reads is the
\* same payload.
C37_OnlyFormatterGetsWholeNamespace ==
    agent_input # None =>
        IF step_data.agent = "FormatterAgent"
        THEN /\ FormatterKeys \subseteq DOMAIN agent_input
             /\ agent_input.all_globals_schema = globals_schema
             /\ agent_input.original_query = original_query
             /\ agent_input.session_context = session_context
        ELSE /\ DOMAIN agent_input =
                    {"step_id", "agent_prompt", "reads", "writes", "inputs"}
             /\ agent_input.inputs = InputsIn(globals_schema, reads[step_id])
             /\ \A g \in Namespaces :
                    AgreeOn(g, globals_schema, reads[step_id]) =>
                        build_agent_input(InputsIn(g, reads[step_id]), g,
                                          None, None, None) = agent_input

\* C37 witness: a step of another capability that reads x has been invoked
\* in a namespace that holds x and y; its payload holds x and nothing of y.
C37_Witness ==
    /\ pc = "turn1"
    /\ step_data.agent = "CoderAgent"
    /\ reads[step_id] = <<"x">>
    /\ DOMAIN globals_schema = {"x", "y"}
    /\ globals_schema["x"] # globals_schema["y"]
    /\ DOMAIN agent_input.inputs = {"x"}
    /\ \E g \in Namespaces :
          g # globals_schema /\ AgreeOn(g, globals_schema, reads[step_id])

\* The steps with status completed.
CompletedSteps == {s \in Steps : status[s] = "completed"}

\* C38: The iteration counter is incremented on every pass of the scheduler
\* loop, including passes that dispatch a batch, and no pass starts once it
\* has reached max_iterations, so a run dispatches at most max_iterations
\* batches in total: an acyclic plan whose longest dependency chain is longer
\* than the budget ends with all_done() false and steps still pending even
\* when every invocation succeeds.  (Over the chain every batch holds one
\* step, so the steps invoked so far count the batches dispatched.)
C38_DispatchingPassesUseTheBudget ==
    /\ [][(pc = "loop" /\ pc' # "loop") =>
             \/ iteration' = iteration + 1 /\ iteration < max_iterations
             \/ /\ pc' = "done" /\ iteration' = iteration
                /\ (AllResolved \/ iteration >= max_iterations)]_vars
    /\ [][pc' = "gather" /\ pc = "loop" => iteration' = iteration + 1]_vars
    /\ [](iteration <= max_iterations)
    /\ [](Cardinality({s \in Steps : calls[s] > 0}) <= iteration)
    /\ []((pc = "done" /\ Acyclic /\ ~AnyFailed
           /\ Cardinality(Steps) > max_iterations) =>
             /\ iteration = max_iterations
             /\ ~AllResolved
             /\ Cardinality(CompletedSteps) = max_iterations
             /\ \E s \in Steps : status[s] = "pending")

\* C38 witness: the run over the chain has ended with no failed node: twenty
\* steps are completed, every one after one successful invocation, and the
\* last step of the chain is still pending.
C38_Witness ==
    /\ pc = "done"
    /\ Acyclic
    /\ ~AnyFailed
    /\ Cardinality(Steps) > max_iterations
    /\ iteration = max_iterations
    /\ Cardinality(CompletedSteps) = max_iterations
    /\ status[StepOrder[Len(StepOrder)]] = "pending"
    /\ ~AllResolved

=============================================================================
